---- MODULE Spec2Model ----
(***************************************************************************)
(* Event -> severity -> decision -> notification -> escalation loop of the *)
(* Secure AI Sandbox backend (backend/app/ai/*, routers/events.py,         *)
(* routers/ai_rules.py, services/file_monitor.py).                         *)
(*                                                                         *)
(* Every API request runs in its own worker thread (the routes are plain   *)
(* "def" functions), the filesystem watcher has one dispatcher thread, and *)
(* every background task runs in a worker thread after its response: the   *)
(* module-level globals _rule_cache, _notification_batch and               *)
(* _last_batch_send are shared by all of them without a lock, so one       *)
(* action below is one access to shared state (a commit, a read or a write *)
(* of a global, a transport call).                                         *)
(***************************************************************************)
EXTENDS Integers, Sequences, FiniteSets, TLC

\* ------------------------------------------------------------- bounds
MaxEvents == 2          \* events created in one behaviour
MaxTime == 60           \* the clock stops advancing here (seconds)
MaxRetriesArg == 4      \* largest max_retries argument tried on a send
MaxEdits == 1           \* administrator edits of a rule in one behaviour
MaxRejects == 4         \* reject feedbacks submitted in one behaviour
MaxAdaptCalls == 2      \* calls of _adapt_rule on its own in one behaviour
MaxRules == 2           \* rules in a snapshot given to evaluate_event

\* ------------------------------------------------- program constants
_cache_ttl == 60
_batch_interval == 300
max_retries == 3
escalation_high_delay_seconds == 300
escalation_critical_delay_seconds == 120

\* Python's None, for a string column, an id and a float.
NoneStr == "None"
NoneId == 0
NoneTime == -1

\* ------------------------------------------------------ Rules Processor
severity_order == [Low |-> 1, Medium |-> 2, High |-> 3, Critical |-> 4]

\* str.lower() on the action_type values the model uses.
Lower(s) == CASE s = "Notify_Modify" -> "notify_modify"
              [] s = "NOTIFY" -> "notify"
              [] OTHER -> s

\* sub in s (substring test) on the lower-cased action_type values and the
\* three event types.
SubstringOf(sub, s) == <<sub, s>> \in {<<"modify", "notify_modify">>}

\* The rule passes line 74: a severity that is set and is a key of
\* severity_order.
Recognized(rule) ==
    /\ rule.severity_level # NoneStr
    /\ rule.severity_level \in DOMAIN severity_order

\* A score whose adaptive boost is 1.5: SeverityIsHighestRecognized must
\* tell it from final_score.
FinalScoreWithLargerBoost(rule, event_type) ==
    LET base_score == severity_order[rule.severity_level]
        adaptive_boost == IF rule.adaptive_flag THEN 15 ELSE 10
        event_match_boost ==
            IF rule.action_type # NoneStr
               /\ SubstringOf(event_type, Lower(rule.action_type))
            THEN 11 ELSE 10
    IN  base_score * adaptive_boost * event_match_boost

\* base_score * adaptive_boost * event_match_boost, in hundredths: the
\* boosts 1.2, 1.0 and 1.1, 1.0 are 12, 10 and 11, 10 tenths.  The sixteen
\* products are pairwise distinct and at least 0.04 apart, so the order and
\* the ties of the floats are those of these integers.
final_score(rule, event_type) ==
    LET base_score == severity_order[rule.severity_level]
        adaptive_boost == IF rule.adaptive_flag THEN 12 ELSE 10
        event_match_boost ==
            IF rule.action_type # NoneStr
               /\ SubstringOf(event_type, Lower(rule.action_type))
            THEN 11 ELSE 10
    IN  base_score * adaptive_boost * event_match_boost

\* A scoring that keeps the rules line 74 skips, with a score of 0:
\* EvaluationInRange must tell it from Scores.
ScoresOfEveryRule(rules, event_type) ==
    [i \in 1..Len(rules) |->
        [rule |-> rules[i],
         score |-> IF Recognized(rules[i])
                   THEN final_score(rules[i], event_type) ELSE 0]]

\* The list "scores" of lines 71-88: the recognized rules, in the order of
\* the snapshot, each with its score.
Scores(rules, event_type) ==
    LET all == [i \in 1..Len(rules) |->
                  [rule |-> rules[i],
                   score |-> IF Recognized(rules[i])
                             THEN final_score(rules[i], event_type) ELSE 0]]
    IN  SelectSeq(all, LAMBDA s : Recognized(s.rule))

\* A max that returns the last element with the largest key:
\* FirstOfTiedRulesWins must tell it from PyMax.
RECURSIVE PyMaxLast(_)
PyMaxLast(s) ==
    IF Len(s) = 1 THEN s[1]
    ELSE LET rest == PyMaxLast(Tail(s))
         IN  IF rest.score >= s[1].score THEN rest ELSE s[1]

\* max(scores, key=lambda x: x[1]): the first element with the largest key.
RECURSIVE PyMax(_)
PyMax(s) ==
    IF Len(s) = 1 THEN s[1]
    ELSE LET rest == PyMax(Tail(s))
         IN  IF rest.score > s[1].score THEN rest ELSE s[1]

\* A largest score that leaves the boosts out: ConfidenceIsScoreOverMaximum
\* must tell it from max_possible_score.
MaxScoreWithoutBoosts == severity_order["Critical"] * 10 * 10

\* 4 * 1.2 * 1.1 in hundredths.
max_possible_score == severity_order["Critical"] * 12 * 11

\* An evaluation whose default is that of the RuleEvaluationResult
\* constructor (line 16: Low, 0.5): DefaultWhenNoRuleRecognized must tell it
\* from evaluate_event.
EvaluateWithClassDefault(rules, event_type) ==
    LET best_result == [severity |-> "Low", matched_rule_id |-> NoneId,
                        confidence |-> [num |-> 5, den |-> 10]]
        scores == Scores(rules, event_type)
    IN  IF Len(rules) = 0 \/ Len(scores) = 0 THEN best_result
        ELSE LET best == PyMax(scores)
             IN  [severity |-> best.rule.severity_level,
                  matched_rule_id |-> best.rule.id,
                  confidence |->
                      [num |-> IF best.score < max_possible_score
                               THEN best.score ELSE max_possible_score,
                       den |-> max_possible_score]]

\* RuleEvaluationResult; confidence is the fraction num/den.
evaluate_event(rules, event_type) ==
    LET best_result == [severity |-> "Medium", matched_rule_id |-> NoneId,
                        confidence |-> [num |-> 3, den |-> 10]]
        scores == Scores(rules, event_type)
    IN  IF Len(rules) = 0 \/ Len(scores) = 0 THEN best_result
        ELSE LET best == PyMax(scores)
             IN  [severity |-> best.rule.severity_level,
                  matched_rule_id |-> best.rule.id,
                  confidence |->
                      [num |-> IF best.score < max_possible_score
                               THEN best.score ELSE max_possible_score,
                       den |-> max_possible_score]]

\* ------------------------------------------------------- Decision Maker
\* A decision that keeps the severity it was given in its fallback:
\* DecideIsTotalMapping must tell it from decide.
DecideKeepsSeverity(severity) ==
    CASE severity = "Low" -> [severity |-> severity, action |-> "Log event only"]
      [] severity = "Medium" -> [severity |-> severity, action |-> "Notify Admin"]
      [] severity = "High" ->
            [severity |-> severity, action |-> "Notify Admin and suggest action"]
      [] severity = "Critical" ->
            [severity |-> severity,
             action |-> "Notify Admin and prepare automated action if no response"]
      [] OTHER -> [severity |-> severity, action |-> "Log event only"]

\* decide, lines 19-28: the four severities by comparison, then the
\* fallback for every other argument.
decide(severity) ==
    CASE severity = "Low" -> [severity |-> severity, action |-> "Log event only"]
      [] severity = "Medium" -> [severity |-> severity, action |-> "Notify Admin"]
      [] severity = "High" ->
            [severity |-> severity, action |-> "Notify Admin and suggest action"]
      [] severity = "Critical" ->
            [severity |-> severity,
             action |-> "Notify Admin and prepare automated action if no response"]
      [] OTHER -> [severity |-> "Low", action |-> "Log event only"]

\* ------------------------------------------------------------ transport
\* What the SMTP server does on each attempt of one send, were it made.
TransportOutcomes == [1..(MaxRetriesArg + 1) -> BOOLEAN]

\* The transports that refuse the first k - 1 attempts of a send and accept
\* from the k-th on: one for every result the retry loop can have.
TransportRuns ==
    {[i \in 1..(MaxRetriesArg + 1) |-> i >= k] : k \in 1..(MaxRetriesArg + 2)}

\* A loop that tries once more than it may: SendBoundedAndExact must tell
\* it from RetryLoop.
RECURSIVE RetryLoopOneMore(_, _, _, _)
RetryLoopOneMore(outs, attempt, retries, slept) ==
    IF attempt > retries
    THEN [ok |-> FALSE, attempts |-> attempt, slept |-> slept, raised |-> FALSE]
    ELSE IF outs[attempt + 1]
         THEN [ok |-> TRUE, attempts |-> attempt + 1, slept |-> slept,
               raised |-> FALSE]
         ELSE RetryLoopOneMore(outs, attempt + 1, retries,
                               IF attempt < retries - 1
                               THEN slept + 2 ^ attempt ELSE slept)

\* The loop of lines 48-68: attempt is the loop variable, slept the total
\* of the back-off sleeps so far.
RECURSIVE RetryLoop(_, _, _, _)
RetryLoop(outs, attempt, retries, slept) ==
    IF attempt >= retries
    THEN [ok |-> FALSE, attempts |-> attempt, slept |-> slept, raised |-> FALSE]
    ELSE IF outs[attempt + 1]
         THEN [ok |-> TRUE, attempts |-> attempt + 1, slept |-> slept,
               raised |-> FALSE]
         ELSE RetryLoop(outs, attempt + 1, retries,
                        IF attempt < retries - 1 THEN slept + 2 ^ attempt
                        ELSE slept)

\* A send that lets its last error out: DeliveryNeverFailsTheCall must tell
\* it from _send_email_with_retry.
SendRaisesWhenExhausted(configured, outs, retries) ==
    IF ~configured
    THEN [ok |-> FALSE, attempts |-> 0, slept |-> 0, raised |-> FALSE]
    ELSE LET r == RetryLoop(outs, 0, retries, 0)
         IN  [r EXCEPT !.raised = ~r.ok]

\* _send_email_with_retry: no attempt at all when the transport is not
\* configured (lines 33-38).
_send_email_with_retry(configured, outs, retries) ==
    IF ~configured
    THEN [ok |-> FALSE, attempts |-> 0, slept |-> 0, raised |-> FALSE]
    ELSE RetryLoop(outs, 0, retries, 0)

\* ---------------------------------------------------------------- state
VARIABLES
    now,                  \* time.time(), in seconds
    settings,             \* app.config.settings: escalation delays, SMTP set up
    ai_rules,             \* table ai_rules, in the order a query returns it
    ai_feedback,          \* table ai_feedback
    events,               \* table events; the id of an event is its index
    logs,                 \* table logs: logs[e] is the records about event e,
                          \* in insertion order
    _rule_cache,          \* <<>> or one entry under the key "all_rules"
    _notification_batch,  \* pending messages
    _last_batch_send,     \* NoneTime or the time of the last flush
    outbox,               \* messages handed to _send_email_with_retry
    call,                 \* call[e]: the handle_event(event e) invocation
    job,                  \* job[e]: the _escalation_job of event e
    edits,                \* administrator edits made so far
    sendIn, sendOut,      \* arguments and result of a send made on its own
    feedback_call,        \* the latest submit_feedback or _adapt_rule call
    evaluation,           \* an evaluate_event or decide call made on its own
    cleared               \* the latest clear_rule_cache call

vars == <<now, settings, ai_rules, ai_feedback, events, logs, _rule_cache,
          _notification_batch, _last_batch_send, outbox, call, job, edits,
          sendIn, sendOut, feedback_call, evaluation, cleared>>

Severities == DOMAIN severity_order
EventTypes == {"modify"}
TickSteps == {_cache_ttl}

\* Settings: the default delays of config.py and the zero delays of
\* tests/test_escalation.py, each without and with an SMTP server set up.
SettingsChoices ==
    {[escalation_high_delay_seconds |-> escalation_high_delay_seconds,
      escalation_critical_delay_seconds |-> escalation_critical_delay_seconds,
      smtp_configured |-> c] : c \in BOOLEAN}
    \cup {[escalation_high_delay_seconds |-> 0,
           escalation_critical_delay_seconds |-> 0,
           smtp_configured |-> c] : c \in BOOLEAN}

Rule(id, sev, atype, adaptive) ==
    [id |-> id, severity_level |-> sev, action_type |-> atype,
     adaptive_flag |-> adaptive]

\* The rule tables a behaviour starts from: no rule, or one rule of each
\* severity.
InitialRules ==
    {<<>>} \cup {<<Rule(1, s, "notify", FALSE)>> : s \in Severities}

NoMessage == [text |-> "", event |-> NoneId, severity |-> NoneStr,
              action |-> NoneStr, rule |-> NoneId]

\* The f-strings of the log and notification messages, by their parts.
Message(text, e, sev, action, rule) ==
    [text |-> text, event |-> e, severity |-> sev, action |-> action,
     rule |-> rule]

\* models.Log.
Log(log_type, message, related_event_id) ==
    [log_type |-> log_type, message |-> message,
     related_event_id |-> related_event_id]

\* A db.add that replaced the newest record about the event.
InsertOverLast(table, e, log) == [table EXCEPT ![e] = IF @ = <<>> THEN <<log>> ELSE [@ EXCEPT ![Len(@)] = log]]

\* db.add(log); db.commit() of a record about event e.  No operation reads
\* the order of records about different events, so the table is kept as
\* one sequence per event.
Insert(table, e, log) == [table EXCEPT ![e] = Append(@, log)]

NotifyMessage(e, sev) ==
    Message("Event severity", e, sev, decide(sev).action, NoneId)

EventIds == 1..Len(events)

NoJob == [pc |-> "none", mode |-> "none", wake |-> 0, exc |-> FALSE]

NewCall(via) ==
    [pc |-> "evaluate", via |-> via, severity |-> NoneStr, rule |-> NoneId,
     t0 |-> 0, rules |-> <<>>, dirty |-> <<>>, nowN |-> 0,
     storeFailed |-> FALSE, escAt |-> NoneTime]

\* ----------------------------------------------------------- rule cache
\* The attributes of AIRule that Session.merge copies.
MergedAttrs == {"severity_level", "action_type", "adaptive_flag"}

RowOf(id, table) == table[CHOOSE i \in 1..Len(table) : table[i].id = id]

HasRow(id, table) == \E i \in 1..Len(table) : table[i].id = id

AttrsThatDiffer(src, row) ==
    {a \in MergedAttrs :
        \/ a = "severity_level" /\ src.severity_level # row.severity_level
        \/ a = "action_type" /\ src.action_type # row.action_type
        \/ a = "adaptive_flag" /\ src.adaptive_flag # row.adaptive_flag}

\* [db.merge(rule) for rule in rules] (line 36).  The session is new, so
\* merge loads the row of the rule's id and copies onto it the attributes
\* the cached object still holds.  The cached objects belong to the session
\* that loaded them and that session's commit expires them (SessionLocal
\* keeps expire_on_commit, db.py line 19): entry.loaded says they still
\* hold their values; once expired nothing is copied and the merged object
\* shows the stored row.
MergeRules(entry, table) ==
    [i \in 1..Len(entry.rules) |->
        IF entry.loaded \/ ~HasRow(entry.rules[i].id, table)
        THEN entry.rules[i]
        ELSE RowOf(entry.rules[i].id, table)]

\* The merged objects that differ from their rows: they are dirty in the
\* session, and its next commit writes them back.
DirtyRules(entry, table) ==
    IF ~entry.loaded THEN <<>>
    ELSE SelectSeq(
           [i \in 1..Len(entry.rules) |->
               [vals |-> entry.rules[i],
                attrs |-> IF HasRow(entry.rules[i].id, table)
                          THEN AttrsThatDiffer(entry.rules[i],
                                               RowOf(entry.rules[i].id, table))
                          ELSE {}]],
           LAMBDA d : d.attrs # {})

\* The UPDATEs a commit flushes for the dirty merged rules.
FlushDirty(table, dirty) ==
    [i \in 1..Len(table) |->
        LET ds == SelectSeq(dirty, LAMBDA d : d.vals.id = table[i].id)
        IN  IF Len(ds) = 0 THEN table[i]
            ELSE [id |-> table[i].id,
                  severity_level |->
                      IF "severity_level" \in ds[1].attrs
                      THEN ds[1].vals.severity_level
                      ELSE table[i].severity_level,
                  action_type |->
                      IF "action_type" \in ds[1].attrs
                      THEN ds[1].vals.action_type ELSE table[i].action_type,
                  adaptive_flag |->
                      IF "adaptive_flag" \in ds[1].attrs
                      THEN ds[1].vals.adaptive_flag
                      ELSE table[i].adaptive_flag]]

\* The commit (or the rollback of a failed commit) of session e expires the
\* objects session e loaded, the cached ones among them.
ExpireOwned(cache, e) ==
    IF Len(cache) = 1 /\ cache[1].owner = e
    THEN <<[cache[1] EXCEPT !.loaded = FALSE]>>
    ELSE cache

\* A cache that still serves an entry whose age is the TTL:
\* CacheServesOnlyFreshSnapshots must tell it from CacheHit.
CacheHitAtTtl(cache, t) == Len(cache) = 1 /\ t - cache[1].timestamp <= _cache_ttl

\* Line 34: the cached snapshot is served.
CacheHit(cache, t) == Len(cache) = 1 /\ t - cache[1].timestamp < _cache_ttl

\* No submit_feedback or _adapt_rule call yet.  rule is the position of the
\* rule in ai_rules (NoneId: no rule), requested the severity the caller
\* asked for, before the rule table and logged the number of log records
\* about the event when the call began, rejects the number
\* of reject feedbacks submitted so far, calls the number of calls of
\* _adapt_rule on its own so far.
NoFeedbackCall ==
    [pc |-> "none", via |-> "none", event |-> NoneId, rule |-> NoneId,
     feedback_type |-> NoneStr, requested |-> NoneStr,
     suggested_severity |-> NoneStr, before |-> <<>>, logged |-> 0,
     rejects |-> 0, calls |-> 0]

\* No clear_rule_cache call yet.
NoClear == [at |-> NoneTime, pending |-> {}]

\* clear_rule_cache has run: at is the number of events there were, pending
\* the handle_event calls that had not yet read the Rule Store or the cache.
Cleared ==
    [at |-> Len(events),
     pending |-> {e \in EventIds : call[e].pc \in {"evaluate", "load"}}]

\* No evaluate_event or decide call made on its own: rules and event_type
\* are the arguments of evaluate_event and result what it returned, severity
\* is the argument of decide and decision what it returned; evaluated and
\* decided say which of the two calls have been made.
NoEvaluation ==
    [rules |-> <<>>, event_type |-> "modify", severity |-> NoneStr,
     evaluated |-> FALSE, decided |-> FALSE,
     result |-> [severity |-> NoneStr, matched_rule_id |-> NoneId,
                 confidence |-> [num |-> 0, den |-> 1]],
     decision |-> [severity |-> NoneStr, action |-> NoneStr]]

\* ------------------------------------------------------------- Init
InitWith(settingsChoices, ruleTables) ==
    /\ now = 0
    /\ settings \in settingsChoices
    /\ ai_rules \in ruleTables
    /\ ai_feedback = <<>>
    /\ events = <<>>
    /\ logs = <<>>
    /\ _rule_cache = <<>>
    /\ _notification_batch = <<>>
    /\ _last_batch_send = NoneTime
    /\ outbox = {}
    /\ call = <<>>
    /\ job = <<>>
    /\ edits = 0
    /\ sendIn = [configured |-> FALSE, retries |-> 0,
                 outs |-> [i \in 1..(MaxRetriesArg + 1) |-> FALSE]]
    /\ sendOut = [ok |-> FALSE, attempts |-> 0, slept |-> 0, raised |-> FALSE]
    /\ feedback_call = NoFeedbackCall
    /\ evaluation = NoEvaluation
    /\ cleared = NoClear

\* ------------------------------------------------------ event creation
\* The watcher's dispatcher thread handles one filesystem event at a time.
WatcherBusy ==
    \E e \in EventIds :
        call[e].via = "watcher" /\ call[e].pc \notin {"closed", "raised"}

\* routers/events.py create_event, up to the call of handle_event with the
\* request's BackgroundTasks.
create_event(event_type) ==
    /\ Len(events) < MaxEvents
    /\ events' = Append(events, [event_type |-> event_type,
                                 processed_flag |-> FALSE])
    /\ call' = Append(call, NewCall("api"))
    /\ job' = Append(job, NoJob)
    /\ logs' = Append(logs, <<>>)
    /\ UNCHANGED <<now, settings, ai_rules, ai_feedback, _rule_cache,
                   _notification_batch, _last_batch_send, outbox, edits,
                   sendIn, sendOut, feedback_call,
                   evaluation, cleared>>

\* FolderEventHandler._create_event, up to the call of handle_event with
\* background_tasks=None.
_create_event(event_type) ==
    /\ Len(events) < MaxEvents
    /\ ~WatcherBusy
    /\ events' = Append(events, [event_type |-> event_type,
                                 processed_flag |-> FALSE])
    /\ call' = Append(call, NewCall("watcher"))
    /\ job' = Append(job, NoJob)
    /\ logs' = Append(logs, <<>>)
    /\ UNCHANGED <<now, settings, ai_rules, ai_feedback, _rule_cache,
                   _notification_batch, _last_batch_send, outbox, edits,
                   sendIn, sendOut, feedback_call,
                   evaluation, cleared>>

\* ------------------------------------------------------- handle_event
\* A call that goes on without its AI_DECISION log:
\* DecisionLoggedOnceAndFirst must tell it from Evaluated.
EvaluatedWithoutLog(c, result, dirty) ==
    [c EXCEPT !.pc = IF result.severity = "Low" THEN "processed" ELSE "notify",
              !.severity = result.severity,
              !.rule = result.matched_rule_id, !.rules = <<>>,
              !.dirty = dirty]

\* The call, once evaluate_event has returned result for it.
Evaluated(c, result, dirty) ==
    [c EXCEPT !.pc = "decision", !.severity = result.severity,
              !.rule = result.matched_rule_id, !.rules = <<>>,
              !.dirty = dirty]

\* _get_cached_rules, lines 29-36: a fresh enough entry is served, merged
\* into the caller's session, and evaluate_event scores it; otherwise the
\* caller goes on to reload, with the time it read at line 30.
_get_cached_rules(e) ==
    /\ call[e].pc = "evaluate"
    /\ IF CacheHit(_rule_cache, now)
       THEN call' = [call EXCEPT ![e] =
                Evaluated(@,
                    evaluate_event(MergeRules(_rule_cache[1], ai_rules),
                                   events[e].event_type),
                    DirtyRules(_rule_cache[1], ai_rules))]
       ELSE call' = [call EXCEPT ![e].pc = "load", ![e].t0 = now]
    /\ UNCHANGED <<now, settings, ai_rules, ai_feedback, events, logs,
                   _rule_cache, _notification_batch, _last_batch_send,
                   outbox, job, edits, sendIn, sendOut, feedback_call,
                   evaluation, cleared>>

\* A reload that serves the entry it found too old when the store read
\* fails: StoreFailureAbortsEvaluation must tell it from load_rules.
LoadServesStaleOnError(e) ==
    /\ call[e].pc = "load"
    /\ \E ok \in BOOLEAN :
         call' = [call EXCEPT ![e] =
                    IF ok THEN [@ EXCEPT !.pc = "install", !.rules = ai_rules]
                    ELSE IF Len(_rule_cache) = 1
                    THEN Evaluated(@,
                             evaluate_event(_rule_cache[1].rules,
                                            events[e].event_type), <<>>)
                    ELSE [@ EXCEPT !.pc = "raised", !.storeFailed = TRUE]]
    /\ UNCHANGED <<now, settings, ai_rules, ai_feedback, events, logs,
                   _rule_cache, _notification_batch, _last_batch_send,
                   outbox, job, edits, sendIn, sendOut, feedback_call,
                   evaluation, cleared>>

\* load_rules (line 39): the query returns the table, or fails and the
\* error leaves handle_event.
load_rules(e) ==
    /\ call[e].pc = "load"
    /\ \E ok \in BOOLEAN :
         call' = [call EXCEPT ![e] =
                    IF ok THEN [@ EXCEPT !.pc = "install", !.rules = ai_rules]
                    ELSE [@ EXCEPT !.pc = "raised", !.storeFailed = TRUE]]
    /\ UNCHANGED <<now, settings, ai_rules, ai_feedback, events, logs,
                   _rule_cache, _notification_batch, _last_batch_send,
                   outbox, job, edits, sendIn, sendOut, feedback_call,
                   evaluation, cleared>>

\* Lines 40-41, then evaluate_event over the rules just loaded.
install_cache(e) ==
    /\ call[e].pc = "install"
    /\ _rule_cache' = <<[rules |-> call[e].rules, timestamp |-> call[e].t0,
                         owner |-> e, loaded |-> TRUE]>>
    /\ call' = [call EXCEPT ![e] =
                  Evaluated(@, evaluate_event(call[e].rules,
                                              events[e].event_type), <<>>)]
    /\ UNCHANGED <<now, settings, ai_rules, ai_feedback, events, logs,
                   _notification_batch, _last_batch_send, outbox, job, edits,
                   sendIn, sendOut, feedback_call,
                   evaluation, cleared>>
\* A handle_event that takes the branch of lines 40-44 for every severity:
\* ProcessedIffLow must tell it from AfterDecision.
AlwaysProcessed(severity) == "processed"

\* What handle_event does after the AI_DECISION commit (lines 39-53).
AfterDecision(severity) == IF severity = "Low" THEN "processed" ELSE "notify"

\* Lines 31-37: the AI_DECISION log and its commit.  The commit flushes the
\* session's dirty merged rules with it and expires the session's objects.
log_decision(e) ==
    /\ call[e].pc = "decision"
    /\ \E ok \in BOOLEAN :
         IF ok
         THEN /\ logs' = Insert(logs, e,
                    Log("AI_DECISION",
                        Message("decision", e, call[e].severity,
                                decide(call[e].severity).action,
                                call[e].rule), e))
              /\ ai_rules' = FlushDirty(ai_rules, call[e].dirty)
              /\ call' = [call EXCEPT
                            ![e].pc = AfterDecision(call[e].severity),
                            ![e].dirty = <<>>]
         ELSE /\ call' = [call EXCEPT ![e].pc = "raised",
                                      ![e].storeFailed = TRUE,
                                      ![e].dirty = <<>>]
              /\ UNCHANGED <<logs, ai_rules>>
    /\ _rule_cache' = ExpireOwned(_rule_cache, e)
    /\ UNCHANGED <<now, settings, ai_feedback, events, _notification_batch,
                   _last_batch_send, outbox, job, edits, sendIn, sendOut,
                   feedback_call,
                   evaluation, cleared>>

\* Lines 40-44: a Low event is marked processed and handle_event returns.
mark_processed(e) ==
    /\ call[e].pc = "processed"
    /\ \E ok \in BOOLEAN :
         IF ok
         THEN /\ events' = [events EXCEPT ![e].processed_flag = TRUE]
              /\ call' = [call EXCEPT ![e].pc = "returned"]
         ELSE /\ call' = [call EXCEPT ![e].pc = "raised",
                                      ![e].storeFailed = TRUE]
              /\ UNCHANGED events
    /\ UNCHANGED <<now, settings, ai_rules, ai_feedback, logs, _rule_cache,
                   _notification_batch, _last_batch_send, outbox, job, edits,
                   sendIn, sendOut, feedback_call,
                   evaluation, cleared>>

\* ------------------------------------------------------ notify_admins
\* A notify_admins that goes on to the batch although its commit failed:
\* NotifyLoggedFirst must tell it from AfterNotifyCommit.
AppendsWithoutCommit(ok) == "append"

\* Lines 83-85 and what follows them: the commit's error leaves
\* notify_admins; handle_event calls it with immediate=False, so a logged
\* message goes to the batch (line 95).
AfterNotifyCommit(ok) == IF ok THEN "append" ELSE "raised"

notify_log(e) ==
    /\ call[e].pc = "notify"
    /\ \E ok \in BOOLEAN :
         /\ logs' = IF ok
                    THEN Insert(logs, e, Log("NOTIFY",
                                NotifyMessage(e, call[e].severity), NoneId))
                    ELSE logs
         /\ call' = [call EXCEPT ![e].pc = AfterNotifyCommit(ok),
                                 ![e].storeFailed = ~ok]
    /\ UNCHANGED <<now, settings, ai_rules, ai_feedback, events, _rule_cache,
                   _notification_batch, _last_batch_send, outbox, job, edits,
                   sendIn, sendOut, feedback_call,
                   evaluation, cleared>>

\* Line 95.
batch_append(e) ==
    /\ call[e].pc = "append"
    /\ _notification_batch' =
           Append(_notification_batch, NotifyMessage(e, call[e].severity))
    /\ call' = [call EXCEPT ![e].pc = "check"]
    /\ UNCHANGED <<now, settings, ai_rules, ai_feedback, events, logs,
                   _rule_cache, _last_batch_send, outbox, job, edits,
                   sendIn, sendOut, feedback_call,
                   evaluation, cleared>>

\* Line 99.
FlushDue(last, t) == last = NoneTime \/ t - last >= _batch_interval

\* Lines 98-99: the time is read once and kept for line 101.
batch_check(e) ==
    /\ call[e].pc = "check"
    /\ call' = [call EXCEPT
                  ![e].pc = IF FlushDue(_last_batch_send, now)
                            THEN "flush" ELSE "escalate",
                  ![e].nowN = now]
    /\ UNCHANGED <<now, settings, ai_rules, ai_feedback, events, logs,
                   _rule_cache, _notification_batch, _last_batch_send,
                   outbox, job, edits, sendIn, sendOut, feedback_call,
                   evaluation, cleared>>

\* An outbound message: what was handed to _send_email_with_retry, and
\* whether it was delivered.
Outbound(kind, e, body, ok) ==
    [kind |-> kind, by |-> e, body |-> body, count |-> Len(body), ok |-> ok]

\* _send_batched_notifications, lines 108-115: the pending messages are
\* joined into one body and handed to the transport; nothing shared is
\* touched between the join and the return of the send.
flush_send(e) ==
    /\ call[e].pc = "flush"
    /\ IF _notification_batch = <<>>
       THEN /\ call' = [call EXCEPT ![e].pc = "set_last"]
            /\ UNCHANGED outbox
       ELSE \E outs \in TransportRuns :
              LET r == _send_email_with_retry(settings.smtp_configured, outs,
                                              max_retries)
              IN  /\ outbox' = outbox \cup
                        {Outbound("batch", e, _notification_batch, r.ok)}
                  /\ call' = [call EXCEPT
                                ![e].pc = IF r.raised THEN "raised" ELSE "clear"]
    /\ UNCHANGED <<now, settings, ai_rules, ai_feedback, events, logs,
                   _rule_cache, _notification_batch, _last_batch_send, job,
                   edits, sendIn, sendOut, feedback_call,
                   evaluation, cleared>>

\* A flush that keeps the batch when its message was not delivered:
\* FailedBatchIsDropped must tell it from flush_clear.
FlushKeepsUndelivered(e) ==
    /\ call[e].pc = "clear"
    /\ _notification_batch' =
           IF \E o \in outbox : o.kind = "batch" /\ o.by = e /\ o.ok
           THEN <<>> ELSE _notification_batch
    /\ call' = [call EXCEPT ![e].pc = "set_last"]
    /\ UNCHANGED <<now, settings, ai_rules, ai_feedback, events, logs,
                   _rule_cache, _last_batch_send, outbox, job, edits,
                   sendIn, sendOut, feedback_call,
                   evaluation, cleared>>

\* Line 118.
flush_clear(e) ==
    /\ call[e].pc = "clear"
    /\ _notification_batch' = <<>>
    /\ call' = [call EXCEPT ![e].pc = "set_last"]
    /\ UNCHANGED <<now, settings, ai_rules, ai_feedback, events, logs,
                   _rule_cache, _last_batch_send, outbox, job, edits,
                   sendIn, sendOut, feedback_call,
                   evaluation, cleared>>

\* Line 101.
set_last_batch_send(e) ==
    /\ call[e].pc = "set_last"
    /\ _last_batch_send' = call[e].nowN
    /\ call' = [call EXCEPT ![e].pc = "escalate"]
    /\ UNCHANGED <<now, settings, ai_rules, ai_feedback, events, logs,
                   _rule_cache, _notification_batch, outbox, job, edits,
                   sendIn, sendOut, feedback_call,
                   evaluation, cleared>>

\* An escalation that gives Medium the delay of High:
\* EscalationOnlyForHighAndCritical must tell it from Delay.
DelayAlsoForMedium(severity) ==
    CASE severity \in {"Medium", "High"} -> settings.escalation_high_delay_seconds
      [] severity = "Critical" -> settings.escalation_critical_delay_seconds
      [] OTHER -> NoneTime

\* ---------------------------------------------------------- escalation
\* Lines 150-154.
Delay(severity) ==
    CASE severity = "High" -> settings.escalation_high_delay_seconds
      [] severity = "Critical" -> settings.escalation_critical_delay_seconds
      [] OTHER -> NoneTime

\* A handle_event that prepares an automated action for High as well:
\* PrepareOnlyLogsForCritical must tell it from AfterEscalate.
PrepareAlsoForHigh(severity) ==
    IF severity \in {"High", "Critical"} THEN "prepare" ELSE "returned"

\* handle_event after escalate_if_needed returns (lines 51-53).
AfterEscalate(severity) ==
    IF severity = "Critical" THEN "prepare" ELSE "returned"

\* escalate_if_needed, lines 150-164: nothing for a severity without a
\* delay; with BackgroundTasks the job is added to the request's tasks, and
\* add_task's error is caught (line 165); without them the job runs here.
escalate_if_needed(e) ==
    /\ call[e].pc = "escalate"
    /\ IF Delay(call[e].severity) = NoneTime
       THEN /\ call' = [call EXCEPT ![e].pc = AfterEscalate(call[e].severity)]
            /\ UNCHANGED job
       ELSE IF call[e].via = "api"
       THEN \E scheduled \in BOOLEAN :
              /\ call' = [call EXCEPT
                            ![e].pc = IF scheduled
                                      THEN AfterEscalate(call[e].severity)
                                      ELSE "fallback",
                            ![e].escAt = now]
              /\ job' = IF scheduled
                        THEN [job EXCEPT ![e].pc = "scheduled",
                                         ![e].mode = "deferred"]
                        ELSE job
       ELSE /\ call' = [call EXCEPT ![e].pc = "in_job", ![e].escAt = now]
            /\ job' = [job EXCEPT ![e].pc = "sleep", ![e].mode = "sync"]
    /\ UNCHANGED <<now, settings, ai_rules, ai_feedback, events, logs,
                   _rule_cache, _notification_batch, _last_batch_send,
                   outbox, edits, sendIn, sendOut, feedback_call,
                   evaluation, cleared>>

\* The job may start: called in place, or taken from the tasks of a request
\* whose endpoint returned (the tasks of a failed request are dropped).
JobMayStart(e) ==
    \/ job[e].pc = "sleep"
    \/ job[e].pc = "scheduled" /\ call[e].pc = "returned"

\* A job that suspends also for a delay of 0:
\* ZeroDelayEscalatesWithoutSuspending must tell it from job_sleep.
JobSleepsForZeroDelay(e) ==
    /\ JobMayStart(e)
    /\ job' = [job EXCEPT
                 ![e].pc = "write",
                 ![e].wake = IF Delay(call[e].severity) > 0
                             THEN now + Delay(call[e].severity) ELSE now + 1]
    /\ UNCHANGED <<now, settings, ai_rules, ai_feedback, events, logs,
                   _rule_cache, _notification_batch, _last_batch_send,
                   outbox, call, edits, sendIn, sendOut, feedback_call,
                   evaluation, cleared>>

\* _escalation_job, lines 124-125: the job sleeps until wake.
job_sleep(e) ==
    /\ JobMayStart(e)
    /\ job' = [job EXCEPT
                 ![e].pc = "write",
                 ![e].wake = IF Delay(call[e].severity) > 0
                             THEN now + Delay(call[e].severity) ELSE now]
    /\ UNCHANGED <<now, settings, ai_rules, ai_feedback, events, logs,
                   _rule_cache, _notification_batch, _last_batch_send,
                   outbox, call, edits, sendIn, sendOut, feedback_call,
                   evaluation, cleared>>

\* time.sleep(delay), line 125, returns: the clock has reached wake.
job_wake(e) ==
    /\ job[e].pc = "write"
    /\ now < job[e].wake
    /\ now' = job[e].wake
    /\ UNCHANGED <<settings, ai_rules, ai_feedback, events, logs, _rule_cache,
                   _notification_batch, _last_batch_send, outbox, call, job,
                   edits, sendIn, sendOut, feedback_call,
                   evaluation, cleared>>

\* Lines 126-137: the ESCALATE log through a session of the job's own; its
\* error is kept while the finally clause runs.
job_write(e) ==
    /\ job[e].pc = "write"
    /\ now >= job[e].wake
    /\ \E ok \in BOOLEAN :
         /\ logs' = IF ok
                    THEN Insert(logs, e, Log("ESCALATE",
                                Message("Escalation triggered", e,
                                        call[e].severity, NoneStr, NoneId), e))
                    ELSE logs
         /\ job' = [job EXCEPT ![e].pc = "send", ![e].exc = ~ok]
    /\ UNCHANGED <<now, settings, ai_rules, ai_feedback, events,
                   _rule_cache, _notification_batch, _last_batch_send,
                   outbox, call, edits, sendIn, sendOut, feedback_call,
                   evaluation, cleared>>

\* Lines 138-143: the escalation e-mail, then the job ends or its error
\* goes on: to the except clause of escalate_if_needed when the job was
\* called in place, out of the background task otherwise.
job_send(e) ==
    /\ job[e].pc = "send"
    /\ \E outs \in TransportRuns :
         LET r == _send_email_with_retry(settings.smtp_configured, outs,
                                         max_retries)
             failed == job[e].exc \/ r.raised
         IN  /\ outbox' = outbox \cup
                   {Outbound("escalation", e,
                             <<Message("Escalation triggered", e,
                                       call[e].severity, NoneStr, NoneId)>>,
                             r.ok)}
             /\ job' = [job EXCEPT ![e].pc = IF failed THEN "failed" ELSE "done"]
             /\ call' = IF job[e].mode = "sync"
                        THEN [call EXCEPT
                                ![e].pc = IF failed THEN "fallback"
                                          ELSE AfterEscalate(call[e].severity)]
                        ELSE call
    /\ UNCHANGED <<now, settings, ai_rules, ai_feedback, events, logs,
                   _rule_cache, _notification_batch, _last_batch_send,
                   edits, sendIn, sendOut, feedback_call,
                   evaluation, cleared>>

\* Lines 165-173: the immediate ESCALATE log of the except clause, through
\* the caller's session.
escalate_fallback(e) ==
    /\ call[e].pc = "fallback"
    /\ \E ok \in BOOLEAN :
         /\ logs' = IF ok
                    THEN Insert(logs, e, Log("ESCALATE",
                                Message("Escalation (immediate fallback)", e,
                                        call[e].severity, NoneStr, NoneId), e))
                    ELSE logs
         /\ call' = [call EXCEPT
                       ![e].pc = IF ok THEN AfterEscalate(call[e].severity)
                                 ELSE "raised",
                       ![e].storeFailed = ~ok]
    /\ UNCHANGED <<now, settings, ai_rules, ai_feedback, events,
                   _rule_cache, _notification_batch, _last_batch_send,
                   outbox, job, edits, sendIn, sendOut, feedback_call,
                   evaluation, cleared>>

\* action_executor.prepare_automated_action, called for a Critical event.
prepare_automated_action(e) ==
    /\ call[e].pc = "prepare"
    /\ \E ok \in BOOLEAN :
         /\ logs' = IF ok
                    THEN Insert(logs, e, Log("ACTION_PREPARED",
                                Message("Prepared automated action", e,
                                        NoneStr, NoneStr, NoneId), e))
                    ELSE logs
         /\ call' = [call EXCEPT ![e].pc = IF ok THEN "returned" ELSE "raised",
                                 ![e].storeFailed = ~ok]
    /\ UNCHANGED <<now, settings, ai_rules, ai_feedback, events,
                   _rule_cache, _notification_batch, _last_batch_send,
                   outbox, job, edits, sendIn, sendOut, feedback_call,
                   evaluation, cleared>>

\* FolderEventHandler._create_event, lines 74-85, after handle_event has
\* returned: the FILE_MONITOR log; an error is logged and swallowed.
file_monitor_log(e) ==
    /\ call[e].via = "watcher"
    /\ call[e].pc = "returned"
    /\ \E ok \in BOOLEAN :
         logs' = IF ok
                 THEN Insert(logs, e, Log("FILE_MONITOR",
                             Message("File monitor detected", e, NoneStr,
                                     NoneStr, NoneId), e))
                 ELSE logs
    /\ call' = [call EXCEPT ![e].pc = "closed"]
    /\ UNCHANGED <<now, settings, ai_rules, ai_feedback, events,
                   _rule_cache, _notification_batch, _last_batch_send,
                   outbox, job, edits, sendIn, sendOut, feedback_call,
                   evaluation, cleared>>

\* ------------------------------------------------------- administrator
\* The AIRuleCreate payloads an edit is tried with.
RulePayloads ==
    {[severity_level |-> s, action_type |-> "notify", adaptive_flag |-> a] :
        s \in {"Low", "Medium"}, a \in BOOLEAN}

\* routers/ai_rules.py update_ai_rule: the rule's columns are set from the
\* payload and committed; the rule cache is left as it is.
update_ai_rule(i, payload) ==
    /\ edits < MaxEdits
    /\ i \in 1..Len(ai_rules)
    /\ ai_rules' = [ai_rules EXCEPT
                      ![i] = Rule(@.id, payload.severity_level,
                                  payload.action_type, payload.adaptive_flag)]
    /\ edits' = edits + 1
    /\ UNCHANGED <<now, settings, ai_feedback, events, logs, _rule_cache,
                   _notification_batch, _last_batch_send, outbox, call, job,
                   sendIn, sendOut, feedback_call,
                   evaluation, cleared>>

\* ---------------------------------------------------- Feedback Processor
\* The mapped attributes of models.AIFeedback: the keywords its constructor
\* accepts (any other keyword is a TypeError).
AIFeedbackAttributes ==
    {"id", "event_id", "admin_id", "feedback_type", "comment", "timestamp",
     "event", "admin"}

\* The keywords submit_feedback constructs AIFeedback with (lines 38-45).
SubmitFeedbackKeywords ==
    {"event_id", "admin_id", "feedback_type", "comment", "timestamp",
     "suggested_severity"}

\* feedback_type: approve/reject/modify (feedback_processor.py line 24).
FeedbackTypes == {"approve", "reject", "modify"}

severity_downgrade == [Critical |-> "High", High |-> "Medium", Medium |-> "Low"]

\* An adaptor that lowers a Medium rule as well:
\* RejectLowersOneLevelAndLogsIt must tell it from _adapt_rule.
AdaptRuleLowersMedium(rule, feedback_type, suggested_severity, rejection_count) ==
    CASE feedback_type = "approve" -> [rule EXCEPT !.adaptive_flag = TRUE]
      [] feedback_type = "reject" ->
            IF rejection_count >= 3
               /\ rule.severity_level \in {"Medium", "High", "Critical"}
            THEN [rule EXCEPT !.severity_level = severity_downgrade[@]]
            ELSE rule
      [] feedback_type = "modify" /\ suggested_severity # NoneStr ->
            [rule EXCEPT !.severity_level = suggested_severity,
                         !.adaptive_flag = TRUE]
      [] OTHER -> rule

\* An adaptor that lowers a rule only from Critical:
\* EveryRejectPastThresholdLowers must tell it from _adapt_rule.
AdaptRuleLowersOnlyCritical(rule, feedback_type, suggested_severity, rejection_count) ==
    CASE feedback_type = "approve" -> [rule EXCEPT !.adaptive_flag = TRUE]
      [] feedback_type = "reject" ->
            IF rejection_count >= 3 /\ rule.severity_level = "Critical"
            THEN [rule EXCEPT !.severity_level = severity_downgrade[@]]
            ELSE rule
      [] feedback_type = "modify" /\ suggested_severity # NoneStr ->
            [rule EXCEPT !.severity_level = suggested_severity,
                         !.adaptive_flag = TRUE]
      [] OTHER -> rule

\* An adaptor whose downgrade takes the rule's adaptive mark away:
\* AdaptiveFlagNeverCleared must tell it from _adapt_rule.
AdaptRuleUnmarksOnDowngrade(rule, feedback_type, suggested_severity, rejection_count) ==
    CASE feedback_type = "approve" -> [rule EXCEPT !.adaptive_flag = TRUE]
      [] feedback_type = "reject" ->
            IF rejection_count >= 3 /\ rule.severity_level \in {"High", "Critical"}
            THEN [rule EXCEPT !.severity_level = severity_downgrade[@],
                              !.adaptive_flag = FALSE]
            ELSE rule
      [] feedback_type = "modify" /\ suggested_severity # NoneStr ->
            [rule EXCEPT !.severity_level = suggested_severity,
                         !.adaptive_flag = TRUE]
      [] OTHER -> rule

\* _adapt_rule, on the rule's columns: rejection_count is the number of
\* reject feedback rows at the time of the query of line 107.
_adapt_rule(rule, feedback_type, suggested_severity, rejection_count) ==
    CASE feedback_type = "approve" -> [rule EXCEPT !.adaptive_flag = TRUE]
      [] feedback_type = "reject" ->
            IF rejection_count >= 3 /\ rule.severity_level \in {"High", "Critical"}
            THEN [rule EXCEPT !.severity_level = severity_downgrade[@]]
            ELSE rule
      [] feedback_type = "modify" /\ suggested_severity # NoneStr ->
            [rule EXCEPT !.severity_level = suggested_severity,
                         !.adaptive_flag = TRUE]
      [] OTHER -> rule

RejectCount(table) ==
    Cardinality({k \in 1..Len(table) : table[k].feedback_type = "reject"})

\* An adaptor that logs every approval:
\* ApproveIsIdempotent must tell it from LearningLogs.
LearningLogsEveryApproval(rule, e, feedback_type, suggested_severity, rejection_count) ==
    CASE feedback_type = "approve" ->
            <<Log("AI_LEARNING",
                  Message("marked as adaptive after approval", e, NoneStr,
                          NoneStr, rule.id), e)>>
      [] feedback_type = "reject" ->
            <<Log("AI_LEARNING",
                  Message("rejected by admin", e, NoneStr, NoneStr, rule.id),
                  e)>>
            \o (IF rejection_count >= 3
                   /\ rule.severity_level \in {"High", "Critical"}
                THEN <<Log("AI_LEARNING",
                           Message("severity auto-adjusted", e,
                                   severity_downgrade[rule.severity_level],
                                   rule.severity_level, rule.id), e)>>
                ELSE <<>>)
      [] feedback_type = "modify" /\ suggested_severity # NoneStr ->
            <<Log("AI_LEARNING",
                  Message("severity updated", e, suggested_severity,
                          rule.severity_level, rule.id), e)>>
      [] OTHER -> <<>>

\* The AI_LEARNING logs _adapt_rule commits for a rule, in order (lines
\* 89-93, 99-103, 123-127, 136-140).
LearningLogs(rule, e, feedback_type, suggested_severity, rejection_count) ==
    CASE feedback_type = "approve" ->
            IF rule.adaptive_flag THEN <<>>
            ELSE <<Log("AI_LEARNING",
                       Message("marked as adaptive after approval", e,
                               NoneStr, NoneStr, rule.id), e)>>
      [] feedback_type = "reject" ->
            <<Log("AI_LEARNING",
                  Message("rejected by admin", e, NoneStr, NoneStr, rule.id),
                  e)>>
            \o (IF rejection_count >= 3
                   /\ rule.severity_level \in {"High", "Critical"}
                THEN <<Log("AI_LEARNING",
                           Message("severity auto-adjusted", e,
                                   severity_downgrade[rule.severity_level],
                                   rule.severity_level, rule.id), e)>>
                ELSE <<>>)
      [] feedback_type = "modify" /\ suggested_severity # NoneStr ->
            <<Log("AI_LEARNING",
                  Message("severity updated", e, suggested_severity,
                          rule.severity_level, rule.id), e)>>
      [] OTHER -> <<>>

FeedbackCall(pc, via, e, i, feedback_type, requested, suggested_severity) ==
    [pc |-> pc, via |-> via, event |-> e, rule |-> i,
     feedback_type |-> feedback_type, requested |-> requested,
     suggested_severity |-> suggested_severity, before |-> ai_rules,
     logged |-> Len(logs[e]),
     rejects |-> feedback_call.rejects
                 + (IF feedback_type = "reject" /\ via # "adaptor" THEN 1
                    ELSE 0),
     calls |-> feedback_call.calls + (IF via = "adaptor" THEN 1 ELSE 0)]

\* submit_feedback.  The AIFeedback constructor is reached first (line 38)
\* and a keyword that is no attribute of the class is a TypeError, which
\* leaves submit_feedback before anything is added to the session.
\* Otherwise: the feedback row (46-48), the AI_FEEDBACK log (50-57), and
\* for a rule _adapt_rule, update_rule_timestamp and clear_rule_cache
\* (59-65).
submit_feedback(e, i, feedback_type, suggested_severity, via, requested) ==
    /\ e \in EventIds
    /\ i \in 0..Len(ai_rules)
    /\ feedback_type = "reject" => feedback_call.rejects < MaxRejects
    /\ IF SubmitFeedbackKeywords \subseteq AIFeedbackAttributes
       THEN LET table == Append(ai_feedback,
                            [event_id |-> e, feedback_type |-> feedback_type])
                count == RejectCount(table)
            IN  /\ ai_feedback' = table
                /\ logs' = [logs EXCEPT ![e] =
                      Append(@, Log("AI_FEEDBACK",
                          Message("Feedback on event", e, NoneStr,
                                  feedback_type,
                                  IF i = 0 THEN NoneId ELSE ai_rules[i].id),
                          e))
                      \o (IF i = 0 THEN <<>>
                          ELSE LearningLogs(ai_rules[i], e, feedback_type,
                                            suggested_severity, count))]
                /\ ai_rules' = IF i = 0 THEN ai_rules
                               ELSE [ai_rules EXCEPT
                                       ![i] = _adapt_rule(@, feedback_type,
                                                  suggested_severity, count)]
                /\ _rule_cache' = IF i = 0 THEN _rule_cache ELSE <<>>
                /\ cleared' = IF i = 0 THEN cleared ELSE Cleared
                /\ feedback_call' =
                       FeedbackCall("returned", via, e, i, feedback_type,
                                    requested, suggested_severity)
       ELSE /\ UNCHANGED <<ai_feedback, logs, ai_rules, _rule_cache, cleared>>
            /\ feedback_call' =
                   FeedbackCall("raised", via, e, i, feedback_type,
                                requested, suggested_severity)
    /\ UNCHANGED <<now, settings, events, _notification_batch,
                   _last_batch_send, outbox, call, job, edits, sendIn,
                   sendOut,
                   evaluation>>

\* routers/feedback.py give_feedback: FeedbackIn has no suggested_severity
\* field, so a severity the client sends is dropped and submit_feedback is
\* called without one.
give_feedback(e, i, feedback_type, requested) ==
    submit_feedback(e, i, feedback_type, NoneStr, "api", requested)

\* An adaptor that applies the feedback to every rule of the table:
\* FeedbackChangesOnlyNamedRule must tell it from adapt_rule.
AdaptEveryRule(e, i, feedback_type, suggested_severity) ==
    /\ e \in EventIds
    /\ i \in 1..Len(ai_rules)
    /\ feedback_call.calls < MaxAdaptCalls
    /\ \E ok1, ok2 \in BOOLEAN :
         LET count == RejectCount(ai_feedback)
             all == LearningLogs(ai_rules[i], e, feedback_type,
                                 suggested_severity, count)
             done == IF ~ok1 THEN 0
                     ELSE IF feedback_type = "reject" /\ ~ok2 THEN 1
                     ELSE Len(all)
         IN  /\ logs' = [logs EXCEPT ![e] = @ \o SubSeq(all, 1, done)]
             /\ ai_rules' = IF done = Len(all)
                            THEN [k \in 1..Len(ai_rules) |->
                                    _adapt_rule(ai_rules[k], feedback_type,
                                                suggested_severity, count)]
                            ELSE ai_rules
             /\ feedback_call' =
                    FeedbackCall(IF done = Len(all) THEN "returned"
                                 ELSE "raised",
                                 "adaptor", e, i, feedback_type,
                                 suggested_severity, suggested_severity)
    /\ UNCHANGED <<now, settings, ai_feedback, events, _rule_cache,
                   _notification_batch, _last_batch_send, outbox, call, job,
                   edits, sendIn, sendOut, evaluation,
                   cleared>>

\* _adapt_rule applied on its own to rule i for event e.  The approve and
\* modify branches are one commit; the reject branch commits its log, reads
\* the count of reject rows and commits the downgrade with its log.  A
\* failed commit raises and persists nothing of its transaction.
adapt_rule(e, i, feedback_type, suggested_severity) ==
    /\ e \in EventIds
    /\ i \in 1..Len(ai_rules)
    /\ feedback_call.calls < MaxAdaptCalls
    /\ \E ok1, ok2 \in BOOLEAN :
         LET count == RejectCount(ai_feedback)
             all == LearningLogs(ai_rules[i], e, feedback_type,
                                 suggested_severity, count)
             done == IF ~ok1 THEN 0
                     ELSE IF feedback_type = "reject" /\ ~ok2 THEN 1
                     ELSE Len(all)
         IN  /\ logs' = [logs EXCEPT ![e] = @ \o SubSeq(all, 1, done)]
             /\ ai_rules' = IF done = Len(all)
                            THEN [ai_rules EXCEPT
                                    ![i] = _adapt_rule(@, feedback_type,
                                               suggested_severity, count)]
                            ELSE ai_rules
             /\ feedback_call' =
                    FeedbackCall(IF done = Len(all) THEN "returned"
                                 ELSE "raised",
                                 "adaptor", e, i, feedback_type,
                                 suggested_severity, suggested_severity)
    /\ UNCHANGED <<now, settings, ai_feedback, events, _rule_cache,
                   _notification_batch, _last_batch_send, outbox, call, job,
                   edits, sendIn, sendOut, evaluation,
                   cleared>>

\* rules_processor.clear_rule_cache, lines 44-46, called once on its own
\* (tests/conftest.py line 59 does so).
clear_rule_cache ==
    /\ cleared = NoClear
    /\ _rule_cache' = <<>>
    /\ cleared' = Cleared
    /\ UNCHANGED <<now, settings, ai_rules, ai_feedback, events, logs,
                   _notification_batch, _last_batch_send, outbox, call, job,
                   edits, sendIn, sendOut, feedback_call, evaluation>>

\* submit_feedback line 61 on its own: the Feedback Adaptor is applied once
\* to rule i for event e.
feedback_learns(e, i, feedback_type, suggested_severity) ==
    /\ feedback_call.calls = 0
    /\ adapt_rule(e, i, feedback_type, suggested_severity)

\* submit_feedback lines 62-65, after an _adapt_rule call that returned:
\* the rule cache is cleared and submit_feedback returns.
feedback_clears ==
    /\ feedback_call.via = "adaptor"
    /\ feedback_call.pc = "returned"
    /\ clear_rule_cache

\* ---------------------------------------------------------------- time
Tick ==
    \E d \in TickSteps :
        /\ now + d <= MaxTime
        /\ now' = now + d
        /\ UNCHANGED <<settings, ai_rules, ai_feedback, events, logs,
                       _rule_cache, _notification_batch, _last_batch_send,
                       outbox, call, job, edits, sendIn, sendOut,
                       feedback_call,
                   evaluation, cleared>>

\* ---------------------------------------- evaluation and decision alone
\* The columns of a rule as the table can hold them: severity_level and
\* action_type are nullable strings (models.py 72-73), so a severity may be
\* missing or none of the four levels.
RuleColumns ==
    [severity_level : Severities \cup {NoneStr, "Urgent"},
     action_type : {NoneStr, "Notify_Modify"},
     adaptive_flag : BOOLEAN]

\* The orders in which a query may return rows with the ids 1..n.
IdOrders(n) ==
    {ids \in [1..n -> 1..n] : \A i, j \in 1..n : i # j => ids[i] # ids[j]}

\* The rule snapshots of n rules.
Snapshots(n) ==
    {[i \in 1..n |-> Rule(ids[i], c[i].severity_level, c[i].action_type,
                          c[i].adaptive_flag)] :
        ids \in IdOrders(n), c \in [1..n -> RuleColumns]}

\* The snapshot of one High, adaptive rule whose action_type is already in
\* lower case.
ScenarioSnapshots == {<<Rule(1, "High", "notify_modify", TRUE)>>}

\* Two of the event types of EventBase (schemas.py line 188): one that the
\* action_type "Notify_Modify" contains once lower-cased and one that it
\* does not contain.
EvaluatedEventTypes == {"create", "modify"}

\* The arguments decide is tried with: the four levels, None, the empty
\* string and strings that are no level.
DecideArguments == Severities \cup {NoneStr, "", "critical", "Urgent"}

\* handle_event lines 28-29 on their own: evaluate_event over the snapshot,
\* then decide on the severity it returned.
evaluate_call ==
    /\ ~evaluation.evaluated
    /\ LET result == evaluate_event(evaluation.rules, evaluation.event_type)
       IN  evaluation' = [evaluation EXCEPT
                            !.severity = result.severity,
                            !.evaluated = TRUE, !.decided = TRUE,
                            !.result = result,
                            !.decision = decide(result.severity)]
    /\ UNCHANGED <<now, settings, ai_rules, ai_feedback, events, logs,
                   _rule_cache, _notification_batch, _last_batch_send,
                   outbox, call, job, edits, sendIn, sendOut, feedback_call,
                   cleared>>

\* decide called on its own with any argument.
decide_call ==
    /\ ~evaluation.decided
    /\ \E severity \in DecideArguments :
         evaluation' = [evaluation EXCEPT !.severity = severity,
                                          !.decided = TRUE,
                                          !.decision = decide(severity)]
    /\ UNCHANGED <<now, settings, ai_rules, ai_feedback, events, logs,
                   _rule_cache, _notification_batch, _last_batch_send,
                   outbox, call, job, edits, sendIn, sendOut, feedback_call,
                   cleared>>

\* ------------------------------------------------------ specifications
\* The events of one behaviour are created within one reading of the
\* clock: two requests and the watcher at work at the same time.
Init == InitWith(SettingsChoices, InitialRules)

Next ==
    \/ \E t \in EventTypes : create_event(t)
    \/ \E t \in EventTypes : _create_event(t)
    \/ \E e \in EventIds : _get_cached_rules(e)
    \/ \E e \in EventIds : load_rules(e)
    \/ \E e \in EventIds : install_cache(e)
    \/ \E e \in EventIds : log_decision(e)
    \/ \E e \in EventIds : mark_processed(e)
    \/ \E e \in EventIds : notify_log(e)
    \/ \E e \in EventIds : batch_append(e)
    \/ \E e \in EventIds : batch_check(e)
    \/ \E e \in EventIds : flush_send(e)
    \/ \E e \in EventIds : flush_clear(e)
    \/ \E e \in EventIds : set_last_batch_send(e)
    \/ \E e \in EventIds : escalate_if_needed(e)
    \/ \E e \in EventIds : job_sleep(e)
    \/ \E e \in EventIds : job_wake(e)
    \/ \E e \in EventIds : job_write(e)
    \/ \E e \in EventIds : job_send(e)
    \/ \E e \in EventIds : escalate_fallback(e)
    \/ \E e \in EventIds : prepare_automated_action(e)
    \/ \E e \in EventIds : file_monitor_log(e)

Spec == Init /\ [][Next]_vars

\* The rule cache under administrator edits, feedback and the passing of
\* time, for events that stop at logging or at the notification.
InitCache ==
    InitWith({s \in SettingsChoices : s.escalation_high_delay_seconds = 0
                                      /\ ~s.smtp_configured},
             {<<Rule(1, "Low", "notify", FALSE)>>})

NextCache ==
    \/ \E t \in EventTypes : create_event(t)
    \/ \E e \in EventIds : _get_cached_rules(e)
    \/ \E e \in EventIds : load_rules(e)
    \/ \E e \in EventIds : install_cache(e)
    \/ \E e \in EventIds : log_decision(e)
    \/ \E e \in EventIds : mark_processed(e)
    \/ \E e \in EventIds : notify_log(e)
    \/ \E e \in EventIds : batch_append(e)
    \/ \E e \in EventIds : batch_check(e)
    \/ \E e \in EventIds : flush_send(e)
    \/ \E e \in EventIds : flush_clear(e)
    \/ \E e \in EventIds : set_last_batch_send(e)
    \/ \E e \in EventIds : escalate_if_needed(e)
    \/ \E i \in 1..Len(ai_rules), p \in RulePayloads : update_ai_rule(i, p)
    \/ \E e \in EventIds, i \in 0..Len(ai_rules) :
          give_feedback(e, i, "approve", NoneStr)
    \/ Tick

SpecCache == InitCache /\ [][NextCache]_vars

\* One send on its own, with every argument and every transport behaviour.
send_call ==
    \E configured \in BOOLEAN, retries \in 0..MaxRetriesArg,
       outs \in TransportOutcomes :
        /\ sendIn' = [configured |-> configured, retries |-> retries,
                      outs |-> outs]
        /\ sendOut' = _send_email_with_retry(configured, outs, retries)
        /\ UNCHANGED <<now, settings, ai_rules, ai_feedback, events, logs,
                       _rule_cache, _notification_batch, _last_batch_send,
                       outbox, call, job, edits, feedback_call,
                   evaluation, cleared>>

NextSend == send_call

SpecSend == InitCache /\ [][NextSend]_vars

\* The rule cache under clear_rule_cache, for requests that stop at logging.
NextClear ==
    \/ \E t \in EventTypes : create_event(t)
    \/ \E e \in EventIds : _get_cached_rules(e)
    \/ \E e \in EventIds : load_rules(e)
    \/ \E e \in EventIds : install_cache(e)
    \/ \E e \in EventIds : log_decision(e)
    \/ \E e \in EventIds : mark_processed(e)
    \/ clear_rule_cache

SpecClear == InitCache /\ [][NextClear]_vars

\* The rule cache under the learning and the invalidation of submit_feedback
\* (lines 59-65), next to requests that stop at logging.
NextInvalidate ==
    \/ \E t \in EventTypes : create_event(t)
    \/ \E e \in EventIds : _get_cached_rules(e)
    \/ \E e \in EventIds : load_rules(e)
    \/ \E e \in EventIds : install_cache(e)
    \/ \E e \in EventIds : log_decision(e)
    \/ \E e \in EventIds : mark_processed(e)
    \/ \E e \in EventIds, i \in 1..Len(ai_rules), f \in FeedbackTypes :
          feedback_learns(e, i, f, NoneStr)
    \/ feedback_clears

SpecInvalidate == InitCache /\ [][NextInvalidate]_vars

\* evaluate_event and decide on their own, with every snapshot, event type
\* and argument.
InitEval ==
    /\ now = 0
    /\ settings \in {s \in SettingsChoices :
                        s.escalation_high_delay_seconds = 0
                        /\ ~s.smtp_configured}
    /\ ai_rules = <<>>
    /\ ai_feedback = <<>>
    /\ events = <<>>
    /\ logs = <<>>
    /\ _rule_cache = <<>>
    /\ _notification_batch = <<>>
    /\ _last_batch_send = NoneTime
    /\ outbox = {}
    /\ call = <<>>
    /\ job = <<>>
    /\ edits = 0
    /\ sendIn = [configured |-> FALSE, retries |-> 0,
                 outs |-> [i \in 1..(MaxRetriesArg + 1) |-> FALSE]]
    /\ sendOut = [ok |-> FALSE, attempts |-> 0, slept |-> 0, raised |-> FALSE]
    /\ feedback_call = NoFeedbackCall
    /\ cleared = NoClear
    /\ \/ \E n \in 0..MaxRules, event_type \in EvaluatedEventTypes :
          \E rules \in Snapshots(n) :
            evaluation = [NoEvaluation EXCEPT !.rules = rules,
                                              !.event_type = event_type]
       \/ \E event_type \in EvaluatedEventTypes, rules \in ScenarioSnapshots :
            evaluation = [NoEvaluation EXCEPT !.rules = rules,
                                              !.event_type = event_type]

NextEval ==
    \/ evaluate_call
    \/ decide_call

SpecEval == InitEval /\ [][NextEval]_vars

\* The severities a feedback may suggest: none, one of the four levels,
\* and a string that is none of them (suggested_severity is Optional[str],
\* feedback_processor.py line 27).
SuggestedSeverities == {NoneStr, "High", "Urgent"}

\* One rule, of every severity and flag.
OneRuleTables ==
    {<<Rule(1, s, "notify", a)>> : s \in Severities, a \in BOOLEAN}

\* Feedback submitted through the endpoint and through submit_feedback
\* itself, about events that have been created, next to administrator
\* edits.
InitFeedback ==
    InitWith({s \in SettingsChoices : s.escalation_high_delay_seconds = 0
                                      /\ ~s.smtp_configured},
             OneRuleTables)

NextFeedback ==
    \/ \E t \in EventTypes : create_event(t)
    \/ \E e \in EventIds, i \in 0..Len(ai_rules), f \in FeedbackTypes,
          r \in SuggestedSeverities : give_feedback(e, i, f, r)
    \/ \E e \in EventIds, i \in 0..Len(ai_rules), f \in FeedbackTypes,
          r \in SuggestedSeverities : submit_feedback(e, i, f, r, "direct", r)
    \/ \E i \in 1..Len(ai_rules), p \in RulePayloads : update_ai_rule(i, p)

SpecFeedback == InitFeedback /\ [][NextFeedback]_vars

\* The ai_feedback tables the query of line 107 may find: n reject rows.
RejectTables ==
    {[k \in 1..n |-> [event_id |-> k, feedback_type |-> "reject"]] :
        n \in 0..MaxRejects}

\* The Feedback Adaptor on its own: _adapt_rule applied to a rule of every
\* severity and flag, with every feedback type and suggestion, over every
\* count of reject rows.
InitAdapt ==
    /\ now = 0
    /\ settings \in {s \in SettingsChoices :
                        s.escalation_high_delay_seconds = 0
                        /\ ~s.smtp_configured}
    /\ ai_rules \in OneRuleTables
    /\ ai_feedback \in RejectTables
    /\ events = <<>>
    /\ logs = <<>>
    /\ _rule_cache = <<>>
    /\ _notification_batch = <<>>
    /\ _last_batch_send = NoneTime
    /\ outbox = {}
    /\ call = <<>>
    /\ job = <<>>
    /\ edits = 0
    /\ sendIn = [configured |-> FALSE, retries |-> 0,
                 outs |-> [i \in 1..(MaxRetriesArg + 1) |-> FALSE]]
    /\ sendOut = [ok |-> FALSE, attempts |-> 0, slept |-> 0, raised |-> FALSE]
    /\ feedback_call = NoFeedbackCall
    /\ evaluation = NoEvaluation
    /\ cleared = NoClear

NextAdapt ==
    \/ \E t \in EventTypes : create_event(t)
    \/ \E e \in EventIds, i \in 1..Len(ai_rules), f \in FeedbackTypes,
          r \in SuggestedSeverities : adapt_rule(e, i, f, r)

SpecAdapt == InitAdapt /\ [][NextAdapt]_vars

\* Two rules: the first of every severity and flag, the second of the
\* lowest and the highest severity.
TwoRuleTables ==
    {<<Rule(1, s1, "notify", a), Rule(2, s2, "notify", FALSE)>> :
        s1 \in Severities, s2 \in {"Low", "Critical"}, a \in BOOLEAN}

\* Feedback over a table of two rules: the Feedback Adaptor on its own and
\* submit_feedback as it runs, over every count of reject rows.
InitFrame ==
    /\ now = 0
    /\ settings \in {s \in SettingsChoices :
                        s.escalation_high_delay_seconds = 0
                        /\ ~s.smtp_configured}
    /\ ai_rules \in TwoRuleTables
    /\ ai_feedback \in RejectTables
    /\ events = <<>>
    /\ logs = <<>>
    /\ _rule_cache = <<>>
    /\ _notification_batch = <<>>
    /\ _last_batch_send = NoneTime
    /\ outbox = {}
    /\ call = <<>>
    /\ job = <<>>
    /\ edits = 0
    /\ sendIn = [configured |-> FALSE, retries |-> 0,
                 outs |-> [i \in 1..(MaxRetriesArg + 1) |-> FALSE]]
    /\ sendOut = [ok |-> FALSE, attempts |-> 0, slept |-> 0, raised |-> FALSE]
    /\ feedback_call = NoFeedbackCall
    /\ evaluation = NoEvaluation
    /\ cleared = NoClear

NextFrame ==
    \/ \E t \in EventTypes : _create_event(t)
    \/ \E e \in EventIds, i \in 1..Len(ai_rules), f \in FeedbackTypes,
          r \in SuggestedSeverities : adapt_rule(e, i, f, r)
    \/ \E e \in EventIds, i \in 0..Len(ai_rules) :
          give_feedback(e, i, "approve", NoneStr)

SpecFrame == InitFrame /\ [][NextFrame]_vars

\* The audit log under every operation that writes it: the dispatch of the
\* file monitor's Critical events with undelayed escalation (handle_event,
\* notify_admins, the escalation job and its fallback,
\* prepare_automated_action), feedback through the endpoint, and the Feedback
\* Adaptor on its own.
InitAudit ==
    InitWith({s \in SettingsChoices : s.escalation_high_delay_seconds = 0
                                      /\ ~s.smtp_configured},
             {<<Rule(1, "Critical", "notify", FALSE)>>})

NextAudit ==
    \/ \E t \in EventTypes : _create_event(t)
    \/ \E e \in EventIds : _get_cached_rules(e)
    \/ \E e \in EventIds : load_rules(e)
    \/ \E e \in EventIds : install_cache(e)
    \/ \E e \in EventIds : log_decision(e)
    \/ \E e \in EventIds : notify_log(e)
    \/ \E e \in EventIds : batch_append(e)
    \/ \E e \in EventIds : batch_check(e)
    \/ \E e \in EventIds : flush_send(e)
    \/ \E e \in EventIds : flush_clear(e)
    \/ \E e \in EventIds : set_last_batch_send(e)
    \/ \E e \in EventIds : escalate_if_needed(e)
    \/ \E e \in EventIds : job_sleep(e)
    \/ \E e \in EventIds : job_write(e)
    \/ \E e \in EventIds : job_send(e)
    \/ \E e \in EventIds : escalate_fallback(e)
    \/ \E e \in EventIds : prepare_automated_action(e)
    \/ \E e \in EventIds : file_monitor_log(e)
    \/ \E e \in EventIds, i \in 0..Len(ai_rules) :
          give_feedback(e, i, "approve", NoneStr)
    \/ \E e \in EventIds, i \in 1..Len(ai_rules), f \in FeedbackTypes :
          adapt_rule(e, i, f, NoneStr)

SpecAudit == InitAudit /\ [][NextAudit]_vars

\* --------------------------------------------------------------- claims
LogTypes(e) == {logs[e][i].log_type : i \in 1..Len(logs[e])}

HasLog(e, log_type) == log_type \in LogTypes(e)

CountLogs(e, log_type) ==
    Cardinality({i \in 1..Len(logs[e]) : logs[e][i].log_type = log_type})

\* handle_event(e) has returned to its caller without an error.
Returned(e) == call[e].pc \in {"returned", "closed"}

\* handle_event(e) is over.
Over(e) == call[e].pc \in {"returned", "closed", "raised"}

\* notify_admins(e) is past its commit of line 85.
PastNotifyCommit(e) ==
    /\ call[e].severity \in {"Medium", "High", "Critical"}
    /\ call[e].pc \in {"append", "check", "flush", "clear", "set_last",
                    "escalate", "in_job", "fallback", "prepare", "returned",
                    "closed"}

\* notify_admins(e) is past its append of line 95.
PastAppend(e) == PastNotifyCommit(e) /\ call[e].pc # "append"

InSeq(m, q) == \E i \in 1..Len(q) : q[i] = m

Batches == {o \in outbox : o.kind = "batch"}

\* C1: every handle_event call that gets as far as its log writes exactly
\* one AI_DECISION record for its event, and writes it before the NOTIFY
\* record and before any ESCALATE or ACTION_PREPARED record about the event:
\* the first record about an event is its only AI_DECISION record, and a call
\* that returned has written it.
DecisionLoggedOnceAndFirst ==
    \A e \in EventIds :
        /\ CountLogs(e, "AI_DECISION") <= 1
        /\ logs[e] # <<>> =>
              /\ logs[e][1].log_type = "AI_DECISION"
              /\ logs[e][1].related_event_id = e
        /\ Returned(e) => CountLogs(e, "AI_DECISION") = 1

DecisionThenNotifyEscalatePrepare ==
    \E e \in EventIds :
        /\ Returned(e)
        /\ Len(logs[e]) >= 4
        /\ logs[e][1].log_type = "AI_DECISION"
        /\ logs[e][2].log_type = "NOTIFY"
        /\ logs[e][3].log_type = "ESCALATE"
        /\ logs[e][4].log_type = "ACTION_PREPARED"

\* C2: a cache hit never serves a rule whose severity_level or adaptive_flag
\* differs from the stored rule: once a rule has been mutated, the next
\* evaluation sees the mutation although the snapshot is younger than the
\* TTL.
MutationSeenByNextEvaluation ==
    \A e \in EventIds : call[e].dirty = <<>>

\* C3: once the escalation job of a High or Critical event has run to its
\* end, after a handle_event call that returned, an ESCALATE record about
\* the event exists, also when the job's own store write failed.
EscalationNeverLost ==
    \A e \in EventIds :
        (/\ call[e].severity \in {"High", "Critical"}
         /\ Returned(e)
         /\ job[e].pc \in {"done", "failed"})
        => HasLog(e, "ESCALATE")

\* C4: no message is lost: a message appended to the pending batch is still
\* pending or is in the body of an outbound batch message.
NoMessageLost ==
    \A e \in EventIds :
        PastAppend(e) =>
            LET m == NotifyMessage(e, call[e].severity)
            IN  \/ InSeq(m, _notification_batch)
                \/ \E o \in Batches : InSeq(m, o.body)

\* C5: no message is in the bodies of two outbound batch messages.
NoMessageSentTwice ==
    \A o1, o2 \in Batches :
        o1.by # o2.by =>
            ~ \E i \in 1..Len(o1.body) : InSeq(o1.body[i], o2.body)

\* C6: a message that is in the pending batch, or in the body of an
\* outbound message, or whose notify_admins call is past its commit, has
\* its NOTIFY record, whatever became of the delivery.
NotifyLoggedFirst ==
    /\ \A i \in 1..Len(_notification_batch) :
          HasLog(_notification_batch[i].event, "NOTIFY")
    /\ \A o \in Batches : \A i \in 1..Len(o.body) :
          HasLog(o.body[i].event, "NOTIFY")
    /\ \A e \in EventIds : PastNotifyCommit(e) => HasLog(e, "NOTIFY")

NotifyLoggedAndDeliveryFailed ==
    \E o \in Batches :
        /\ settings.smtp_configured
        /\ ~o.ok
        /\ HasLog(o.by, "NOTIFY")
        /\ InSeq(NotifyMessage(o.by, call[o.by].severity), o.body)

\* C7: an error leaves handle_event only when one of its store operations
\* failed, never because of a delivery; a call that returned has its
\* AI_DECISION record and, above Low, its NOTIFY record.
DeliveryNeverFailsTheCall ==
    \A e \in EventIds :
        /\ call[e].pc = "raised" => call[e].storeFailed
        /\ Returned(e) =>
              /\ HasLog(e, "AI_DECISION")
              /\ call[e].severity # "Low" => HasLog(e, "NOTIFY")

ReturnedAlthoughUndelivered ==
    \E e \in EventIds :
        /\ Returned(e)
        /\ \E o \in outbox : o.by = e
        /\ \A o \in outbox : o.by = e => ~o.ok
        /\ HasLog(e, "AI_DECISION")
        /\ HasLog(e, "NOTIFY")

\* C8: a send makes at most max_retries attempts, stops at the first
\* attempt the transport accepts, and succeeds exactly when the transport
\* accepts one of the attempts it may make; its loop ends (the number of
\* its iterations is the number of attempts).
SomeAccepted(in) == \E k \in 1..in.retries : in.outs[k]

FirstAccepted(in) ==
    CHOOSE k \in 1..in.retries :
        in.outs[k] /\ \A j \in 1..(k - 1) : ~in.outs[j]

SendBoundedAndExact ==
    /\ sendOut.attempts <= sendIn.retries
    /\ ~sendOut.raised
    /\ sendOut.ok <=> (sendIn.configured /\ SomeAccepted(sendIn))
    /\ sendOut.ok => sendOut.attempts = FirstAccepted(sendIn)
    /\ (sendIn.configured /\ ~sendOut.ok) => sendOut.attempts = sendIn.retries
    /\ ~sendIn.configured => sendOut.attempts = 0

SendSucceedsOnSecondAttempt ==
    /\ sendIn.configured
    /\ sendIn.retries = max_retries
    /\ ~sendIn.outs[1]
    /\ sendOut.ok
    /\ sendOut.attempts = 2

\* escalate_if_needed(e) ran for a severity with a delay and could not
\* defer the job: no BackgroundTasks, or add_task failed.
SchedulerUnavailable(e) ==
    call[e].escAt # NoneTime /\ job[e].mode # "deferred"

\* The job of event e is asleep until its delay has passed.
Sleeping(e) == job[e].pc = "write" /\ now < job[e].wake

\* C9: when the job cannot be deferred, escalate_if_needed does not wait for
\* the delay, has written an ESCALATE record when it returns, and lets no
\* error out (short of a failure of the store itself).
UndeferredEscalationIsImmediate ==
    \A e \in EventIds :
        SchedulerUnavailable(e) =>
            /\ ~Sleeping(e)
            /\ call[e].pc \in {"prepare", "returned", "closed"}
                  => HasLog(e, "ESCALATE")
            /\ call[e].pc = "raised" => call[e].storeFailed

\* C10: handle_event never waits for the escalation delay, and the job's
\* ESCALATE record is written only once the handle_event call that
\* scheduled the job is over.
JobEscalated(e) ==
    \E i \in 1..Len(logs[e]) :
        /\ logs[e][i].log_type = "ESCALATE"
        /\ logs[e][i].message.text = "Escalation triggered"

EscalationOnlyAfterReturn ==
    \A e \in EventIds :
        /\ ~(call[e].pc = "in_job" /\ Sleeping(e))
        /\ JobEscalated(e) => Over(e)

\* C11: with an escalation delay of 0 the deferred job of an event created
\* through the API never suspends, and once it has run past its store write
\* without a store error the job's ESCALATE record about the event exists.
ZeroDelayEscalatesWithoutSuspending ==
    \A e \in EventIds :
        (/\ call[e].via = "api"
         /\ job[e].mode = "deferred"
         /\ Delay(call[e].severity) = 0)
        => /\ ~Sleeping(e)
           /\ (job[e].pc \in {"send", "done", "failed"} /\ ~job[e].exc)
                  => JobEscalated(e)

ZeroDelayJobHasEscalated ==
    \E e \in EventIds :
        /\ call[e].via = "api"
        /\ call[e].severity = "Critical"
        /\ settings.escalation_critical_delay_seconds = 0
        /\ job[e].mode = "deferred"
        /\ job[e].pc = "done"
        /\ JobEscalated(e)
        /\ now = call[e].escAt

\* The latest call is a submit_feedback call that is over, of the given
\* type; Named: it names a rule.
Submitted(feedback_type) ==
    /\ feedback_call.pc \in {"returned", "raised"}
    /\ feedback_call.via \in {"api", "direct"}
    /\ feedback_call.feedback_type = feedback_type

Named == feedback_call.rule # NoneId

\* The named rule when the latest call began, and now.
RuleBefore == feedback_call.before[feedback_call.rule]

RuleNow == ai_rules[feedback_call.rule]

\* C12: after a reject feedback naming a rule that was High or Critical,
\* with no administrator edit in between, the rule is one level lower if
\* and only if at least 3 reject feedbacks have been submitted, this one
\* counted; otherwise it has its severity of before.
RejectDowngradesFromThirdReject ==
    (/\ Submitted("reject")
     /\ Named
     /\ edits = 0
     /\ RuleBefore.severity_level \in {"High", "Critical"})
    => RuleNow.severity_level =
           IF feedback_call.rejects >= 3
           THEN severity_downgrade[RuleBefore.severity_level]
           ELSE RuleBefore.severity_level

\* The latest call is a call of _adapt_rule on its own that is over.
Adapted(feedback_type) ==
    /\ feedback_call.pc \in {"returned", "raised"}
    /\ feedback_call.via = "adaptor"
    /\ feedback_call.feedback_type = feedback_type

\* The log records the latest call has appended.
LoggedByCall ==
    SubSeq(logs[feedback_call.event], feedback_call.logged + 1,
           Len(logs[feedback_call.event]))

\* The texts of the AI_LEARNING records the latest call has appended.
LearnedByCall ==
    {LoggedByCall[k].message.text : k \in
        {j \in 1..Len(LoggedByCall) : LoggedByCall[j].log_type = "AI_LEARNING"}}

\* C13: a reject leaves the named rule as it was or one level lower
\* (Critical to High, High to Medium), never touches a Medium or Low rule,
\* changes no other column, and has appended the downgrade AI_LEARNING
\* record exactly when it lowered the rule.
RejectLowersOneLevelAndLogsIt ==
    Adapted("reject") =>
        /\ RuleNow.adaptive_flag = RuleBefore.adaptive_flag
        /\ RuleNow.action_type = RuleBefore.action_type
        /\ \/ RuleNow.severity_level = RuleBefore.severity_level
           \/ /\ RuleBefore.severity_level \in {"High", "Critical"}
              /\ RuleNow.severity_level =
                     severity_downgrade[RuleBefore.severity_level]
        /\ RuleBefore.severity_level \in {"Medium", "Low"}
              => RuleNow = RuleBefore
        /\ ("severity auto-adjusted" \in LearnedByCall)
              <=> RuleNow.severity_level # RuleBefore.severity_level

RejectLoweredCriticalToHigh ==
    /\ Adapted("reject")
    /\ feedback_call.pc = "returned"
    /\ RejectCount(ai_feedback) >= 3
    /\ RuleBefore.severity_level = "Critical"
    /\ RuleNow.severity_level = "High"
    /\ "severity auto-adjusted" \in LearnedByCall

SubmitOver ==
    /\ feedback_call.pc \in {"returned", "raised"}
    /\ feedback_call.via \in {"api", "direct"}

\* A Feedback record about the event of the latest call exists.
FeedbackPersisted ==
    \E k \in 1..Len(ai_feedback) :
        ai_feedback[k].event_id = feedback_call.event

\* The log types of the records the latest call has appended, in order.
LogTypesByCall == [k \in 1..Len(LoggedByCall) |-> LoggedByCall[k].log_type]

\* C15: after a modify feedback that names a rule and asks for a severity,
\* sent through the endpoint or to submit_feedback itself, with no
\* administrator edit in between, the rule has the severity asked for and
\* is adaptive, and the call has appended one AI_LEARNING record.
ModifySetsSuggestedSeverity ==
    (/\ Submitted("modify")
     /\ Named
     /\ feedback_call.requested # NoneStr
     /\ edits = 0)
    => /\ RuleNow.severity_level = feedback_call.requested
       /\ RuleNow.adaptive_flag
       /\ Cardinality({k \in 1..Len(LoggedByCall) :
                         LoggedByCall[k].log_type = "AI_LEARNING"}) = 1

\* C16: after a submit_feedback call that names no rule, the Feedback
\* record and the AI_FEEDBACK log of the call exist, the rules are as they
\* were (no administrator edit in between), the call has appended no other
\* record and the rule cache is as it was.
FeedbackWithoutRuleOnlyPersists ==
    (SubmitOver /\ ~Named) =>
        /\ FeedbackPersisted
        /\ LogTypesByCall = <<"AI_FEEDBACK">>
        /\ edits = 0 => ai_rules = feedback_call.before

\* C17: every submit_feedback call persists its Feedback record and its
\* AI_FEEDBACK log, and that log is the first record the call appends,
\* before any AI_LEARNING record of a rule mutation.
FeedbackPersistedFirst ==
    SubmitOver =>
        /\ FeedbackPersisted
        /\ LogTypesByCall # <<>>
        /\ LogTypesByCall[1] = "AI_FEEDBACK"
        /\ \A k \in 2..Len(LogTypesByCall) : LogTypesByCall[k] = "AI_LEARNING"

LogIsAppendOnly ==
    [][\A e \in DOMAIN logs :
          /\ e \in DOMAIN logs'
          /\ Len(logs'[e]) >= Len(logs[e])
          /\ SubSeq(logs'[e], 1, Len(logs[e])) = logs[e]]_vars

\* The trail of one event holds, in the order written, the records of its
\* decision, its notification, its escalation and its prepared action, and
\* a learning record of the Feedback Adaptor.
TrailOfEveryOperation ==
    \E e \in DOMAIN logs :
        /\ {"AI_DECISION", "NOTIFY", "ESCALATE", "ACTION_PREPARED",
            "AI_LEARNING"} \subseteq LogTypes(e)
        /\ logs[e][1].log_type = "AI_DECISION"
        /\ feedback_call.via = "api"

\* C21: once handle_event has returned, the event's processed_flag is true
\* exactly when the evaluated severity was Low; the flag of a Medium, High or
\* Critical event is false in every state, the flag is true only after the
\* call returned, and no step sets a true flag back to false.
ProcessedIffLow ==
    /\ [](\A e \in EventIds :
            /\ events[e].processed_flag =>
                   call[e].severity = "Low" /\ Returned(e)
            /\ Returned(e) =>
                   (events[e].processed_flag <=> call[e].severity = "Low"))
    /\ [][\A e \in EventIds :
             events[e].processed_flag => events'[e].processed_flag]_vars

LowEventProcessed ==
    \E e \in EventIds :
        /\ Returned(e)
        /\ call[e].severity = "Low"
        /\ events[e].processed_flag
        /\ LogTypes(e) \subseteq {"AI_DECISION", "FILE_MONITOR"}

\* C22: whatever the event and the snapshot, rules with a missing or
\* unrecognized severity_level included, evaluate_event returns a confidence
\* between 0 and 1 and one of the four severities, and Medium when no rule
\* of the snapshot has one of the four severities.
EvaluationInRange ==
    evaluation.evaluated =>
        /\ evaluation.result.severity \in {"Low", "Medium", "High", "Critical"}
        /\ evaluation.result.confidence.den > 0
        /\ evaluation.result.confidence.num >= 0
        /\ evaluation.result.confidence.num <= evaluation.result.confidence.den
        /\ (\A i \in 1..Len(evaluation.rules) :
               evaluation.rules[i].severity_level
                   \notin {"Low", "Medium", "High", "Critical"})
              => evaluation.result.severity = "Medium"

UnrecognizedRuleNextToFullScore ==
    /\ evaluation.evaluated
    /\ Len(evaluation.rules) = 2
    /\ evaluation.rules[1].severity_level = "Urgent"
    /\ evaluation.rules[2].severity_level = "Critical"
    /\ evaluation.result.severity = "Critical"
    /\ evaluation.result.confidence.num = evaluation.result.confidence.den

\* The positions of the snapshot whose rule has one of the four severities.
Scored == {i \in 1..Len(evaluation.rules) : Recognized(evaluation.rules[i])}

ScoreAt(i) == final_score(evaluation.rules[i], evaluation.event_type)

\* The first position of the snapshot that has the largest score.
FirstBest ==
    CHOOSE i \in Scored :
        /\ \A j \in Scored : ScoreAt(j) <= ScoreAt(i)
        /\ \A j \in Scored : ScoreAt(j) = ScoreAt(i) => i <= j

\* C23: when several rules have the largest score, evaluate_event returns
\* the id of the one that comes first in the snapshot.
FirstOfTiedRulesWins ==
    (evaluation.evaluated /\ Scored # {}) =>
        evaluation.result.matched_rule_id = evaluation.rules[FirstBest].id

TiedRulesFirstReturned ==
    /\ evaluation.evaluated
    /\ Len(evaluation.rules) = 2
    /\ Scored = {1, 2}
    /\ ScoreAt(1) = ScoreAt(2)
    /\ evaluation.rules[1].id = 2
    /\ evaluation.result.matched_rule_id = 2

\* C24: for an empty snapshot and for one in which no rule has one of the
\* four severities, evaluate_event returns Medium, 0.3 and no rule, and the
\* decision on it is 'Notify Admin'.
DefaultWhenNoRuleRecognized ==
    (evaluation.evaluated
     /\ \A i \in 1..Len(evaluation.rules) :
           evaluation.rules[i].severity_level
               \notin {"Low", "Medium", "High", "Critical"}) =>
        /\ evaluation.result.severity = "Medium"
        /\ evaluation.result.confidence = [num |-> 3, den |-> 10]
        /\ evaluation.result.matched_rule_id = NoneId
        /\ evaluation.decision = [severity |-> "Medium",
                                  action |-> "Notify Admin"]

DefaultForUnrecognizedRules ==
    /\ evaluation.evaluated
    /\ Len(evaluation.rules) = 2
    /\ evaluation.rules[1].severity_level = NoneStr
    /\ evaluation.rules[2].severity_level = "Urgent"
    /\ evaluation.result.matched_rule_id = NoneId
    /\ evaluation.decision.action = "Notify Admin"

\* C25: decide maps Low to 'Log event only', Medium to 'Notify Admin', High
\* to 'Notify Admin and suggest action', Critical to 'Notify Admin and
\* prepare automated action if no response', each with the severity given,
\* and every other argument to severity Low with 'Log event only'.
DecideIsTotalMapping ==
    evaluation.decided =>
        evaluation.decision =
            IF evaluation.severity = "Low"
            THEN [severity |-> "Low", action |-> "Log event only"]
            ELSE IF evaluation.severity = "Medium"
            THEN [severity |-> "Medium", action |-> "Notify Admin"]
            ELSE IF evaluation.severity = "High"
            THEN [severity |-> "High",
                  action |-> "Notify Admin and suggest action"]
            ELSE IF evaluation.severity = "Critical"
            THEN [severity |-> "Critical",
                  action |->
                    "Notify Admin and prepare automated action if no response"]
            ELSE [severity |-> "Low", action |-> "Log event only"]

DecidedOnUnknownSeverity ==
    /\ evaluation.decided
    /\ ~evaluation.evaluated
    /\ evaluation.severity = "critical"
    /\ evaluation.decision.severity = "Low"

\* C26: _get_cached_rules serves the cached snapshot only while its age, the
\* time read by the call minus the time the entry was stamped with, is below
\* the TTL, and leaves the cache alone when it does; on a cold cache or an
\* entry that has reached the TTL it goes on to reload, and the reload puts
\* the whole of what it read into the cache, stamped with the time the call
\* read; no step changes the rules or the stamp of an entry otherwise.
CacheServesOnlyFreshSnapshots ==
    [][\A e \in EventIds :
          /\ (call[e].pc = "evaluate" /\ call'[e].pc = "decision") =>
                 /\ Len(_rule_cache) = 1
                 /\ now - _rule_cache[1].timestamp < _cache_ttl
                 /\ _rule_cache' = _rule_cache
          /\ (/\ call[e].pc = "evaluate"
              /\ call'[e].pc # "evaluate"
              /\ \/ _rule_cache = <<>>
                 \/ now - _rule_cache[1].timestamp >= _cache_ttl) =>
                 call'[e].pc = "load" /\ call'[e].t0 = now
          /\ (call[e].pc = "install" /\ call'[e].pc # "install") =>
                 /\ Len(_rule_cache') = 1
                 /\ _rule_cache'[1].rules = call[e].rules
                 /\ _rule_cache'[1].timestamp = call[e].t0
          /\ Len(_rule_cache) = 1 =>
                 \/ /\ Len(_rule_cache') = 1
                    /\ _rule_cache'[1].rules = _rule_cache[1].rules
                    /\ _rule_cache'[1].timestamp = _rule_cache[1].timestamp
                 \/ \E o \in EventIds :
                       call[o].pc = "install" /\ call'[o].pc # "install"
                 \/ _rule_cache' = <<>>]_vars

ExpiredEntryRefused ==
    \E e, o \in EventIds :
        /\ Len(_rule_cache) = 1
        /\ _rule_cache[1].owner = o
        /\ _rule_cache[1].timestamp = 0
        /\ now = _cache_ttl
        /\ call[e].pc = "load"
        /\ call[e].t0 = now

RefreshFailed(e) == call[e].pc = "raised" /\ call[e].severity = NoneStr

\* C28: a call whose store read fails during the cache refresh raises: it
\* leaves the cache as it was and is never evaluated from what the cache
\* holds; no AI_DECISION or NOTIFY record is written for its event and no
\* message about it is queued or sent.
StoreFailureAbortsEvaluation ==
    /\ [](\A e \in EventIds :
            RefreshFailed(e) =>
                /\ logs[e] = <<>>
                /\ \A i \in 1..Len(_notification_batch) :
                       _notification_batch[i].event # e
                /\ \A o \in outbox :
                       \A i \in 1..Len(o.body) : o.body[i].event # e)
    /\ [][\A e \in EventIds :
             call[e].pc = "load" =>
                 /\ call'[e].pc \in {"load", "install", "raised"}
                 /\ call'[e].pc = "raised" =>
                        /\ _rule_cache' = _rule_cache
                        /\ call'[e].storeFailed]_vars

RefreshFailedOnExpiredEntry ==
    \E e \in EventIds :
        /\ RefreshFailed(e)
        /\ call[e].storeFailed
        /\ Len(_rule_cache) = 1
        /\ now - _rule_cache[1].timestamp >= _cache_ttl
        /\ logs[e] = <<>>

\* C29: no escalation job is scheduled or started and no ESCALATE record is
\* written for an event scored Low or Medium (or not scored at all); a Low
\* event has no NOTIFY record either, and a Medium event whose handle_event
\* call returned has one.
EscalationOnlyForHighAndCritical ==
    \A e \in EventIds :
        /\ call[e].severity \notin {"High", "Critical"} =>
               /\ job[e] = NoJob
               /\ ~HasLog(e, "ESCALATE")
        /\ call[e].severity = "Low" => ~HasLog(e, "NOTIFY")
        /\ (call[e].severity = "Medium" /\ Returned(e)) => HasLog(e, "NOTIFY")

MediumNotifiedNotEscalated ==
    \E e \in EventIds :
        /\ call[e].severity = "Medium"
        /\ Returned(e)
        /\ HasLog(e, "NOTIFY")
        /\ ~HasLog(e, "ESCALATE")
        /\ job[e] = NoJob

\* The escalation job of event e was added to the tasks of a request that
\* then failed: the tasks of a request are run after its response, and a
\* request whose endpoint raised has none to run them after.
Dropped(e) ==
    /\ job[e].mode = "deferred"
    /\ job[e].pc = "scheduled"
    /\ call[e].pc = "raised"

\* C30: no operation removes an escalation job that has been scheduled: the
\* job is run and gets to its ESCALATE write.
ScheduledEscalationIsNeverRemoved ==
    \A e \in EventIds : ~Dropped(e)

\* C31: prepare_automated_action runs only for an event scored Critical, and
\* all it does is append one ACTION_PREPARED record about that event: its
\* step leaves every rule, every event, the pending batch, the last flush
\* time, the rule cache, the feedback table, the outbound messages and the
\* records about every other event as they were, and appends nothing when
\* its commit fails; no event has more than one such record.
PrepareOnlyLogsForCritical ==
    /\ [](\A e \in EventIds :
            /\ call[e].pc = "prepare" => call[e].severity = "Critical"
            /\ HasLog(e, "ACTION_PREPARED") => call[e].severity = "Critical"
            /\ CountLogs(e, "ACTION_PREPARED") <= 1)
    /\ [][\A e \in EventIds :
             (call[e].pc = "prepare" /\ call'[e].pc # "prepare") =>
                 /\ ai_rules' = ai_rules
                 /\ events' = events
                 /\ ai_feedback' = ai_feedback
                 /\ _notification_batch' = _notification_batch
                 /\ _last_batch_send' = _last_batch_send
                 /\ _rule_cache' = _rule_cache
                 /\ outbox' = outbox
                 /\ job' = job
                 /\ \A o \in EventIds : o # e => logs'[o] = logs[o]
                 /\ call'[e].pc \in {"returned", "raised"}
                 /\ call'[e].pc = "raised" => logs'[e] = logs[e]
                 /\ call'[e].pc = "returned" =>
                        /\ Len(logs'[e]) = Len(logs[e]) + 1
                        /\ SubSeq(logs'[e], 1, Len(logs[e])) = logs[e]
                        /\ logs'[e][Len(logs'[e])].log_type = "ACTION_PREPARED"
                        /\ logs'[e][Len(logs'[e])].related_event_id = e]_vars

CriticalActionPrepared ==
    \E e \in EventIds :
        /\ call[e].pc = "returned"
        /\ call[e].severity = "Critical"
        /\ CountLogs(e, "ACTION_PREPARED") = 1
        /\ logs[e][Len(logs[e])].log_type = "ACTION_PREPARED"
        /\ Len(_rule_cache) = 1
        /\ _rule_cache[1].rules = ai_rules
        /\ ai_rules[1].severity_level = "Critical"
        /\ events[e].processed_flag = FALSE

\* C32: the severity evaluate_event returns is the highest severity_level
\* among the rules of the snapshot that have one of the four severities: the
\* boosts, also both together, never let a rule of a lower severity outscore
\* a rule of a higher one, and the rule returned has that highest severity.
SeverityIsHighestRecognized ==
    (evaluation.evaluated /\ Scored # {}) =>
        /\ \A i \in Scored :
              severity_order[evaluation.rules[i].severity_level]
                  <= severity_order[evaluation.result.severity]
        /\ \E i \in Scored :
              /\ evaluation.rules[i].id = evaluation.result.matched_rule_id
              /\ evaluation.rules[i].severity_level = evaluation.result.severity
        /\ \A i, j \in Scored :
              severity_order[evaluation.rules[i].severity_level]
                  < severity_order[evaluation.rules[j].severity_level]
              => ScoreAt(i) < ScoreAt(j)

BoostedHighBelowPlainCritical ==
    /\ evaluation.evaluated
    /\ evaluation.event_type = "modify"
    /\ Len(evaluation.rules) = 2
    /\ evaluation.rules[1] = Rule(1, "High", "Notify_Modify", TRUE)
    /\ evaluation.rules[2] = Rule(2, "Critical", NoneStr, FALSE)
    /\ evaluation.result.severity = "Critical"
    /\ evaluation.result.matched_rule_id = 2

FeedbackOver == feedback_call.pc \in {"returned", "raised"}

\* C34: a feedback that names a rule leaves every other rule as it was, its
\* severity_level and adaptive_flag included, and a feedback that names no
\* rule leaves every rule as it was: a reject naming a Low rule after the
\* third reject row lowers no other rule.
FeedbackChangesOnlyNamedRule ==
    FeedbackOver =>
        /\ Len(ai_rules) = Len(feedback_call.before)
        /\ \A k \in 1..Len(ai_rules) :
              k # feedback_call.rule => ai_rules[k] = feedback_call.before[k]

RejectOnLowRuleAfterDowngrade ==
    /\ Adapted("reject")
    /\ feedback_call.pc = "returned"
    /\ feedback_call.calls = 2
    /\ feedback_call.rule = 2
    /\ RejectCount(ai_feedback) >= 3
    /\ RuleBefore.severity_level = "Low"
    /\ feedback_call.before[1].severity_level = "High"
    /\ ai_rules[1].severity_level = "High"
    /\ \E k \in 1..Len(logs[feedback_call.event]) :
          /\ logs[feedback_call.event][k].message.text = "severity auto-adjusted"
          /\ logs[feedback_call.event][k].message.rule = 1
          /\ logs[feedback_call.event][k].message.action = "Critical"

Flushers == {o.by : o \in Batches}

\* C36: a notify_admins call goes from its check to a flush exactly when no
\* flush has been made yet or the time it read is at least the batch
\* interval past the time of every flush made so far; and the flush hands
\* the whole pending batch, in arrival order, to the transport as one
\* message and removes from the batch nothing but what it handed over.
FlushExactlyWhenDue ==
    [][\A e \in EventIds :
          /\ (call[e].pc = "check" /\ call'[e].pc # "check") =>
                 (call'[e].pc = "flush" <=>
                      \A f \in Flushers : now - call[f].nowN >= _batch_interval)
          /\ (call[e].pc = "flush" /\ call'[e].pc = "clear") =>
                 \E o \in outbox' :
                     /\ o.kind = "batch" /\ o.by = e
                     /\ o.body = _notification_batch
          /\ (call[e].pc = "clear" /\ call'[e].pc # "clear") =>
                 /\ _notification_batch' = <<>>
                 /\ \E o \in Batches :
                        o.by = e /\ o.body = _notification_batch]_vars

\* rank x (1.2 if adaptive else 1.0) x (1.1 if the lower-cased action_type
\* contains the event type else 1.0) of the rule at position i, in
\* hundredths.
WeightedRank(i) ==
    LET rule == evaluation.rules[i]
        rank == CASE rule.severity_level = "Low" -> 1
                  [] rule.severity_level = "Medium" -> 2
                  [] rule.severity_level = "High" -> 3
                  [] rule.severity_level = "Critical" -> 4
    IN  rank * (IF rule.adaptive_flag THEN 12 ELSE 10)
             * (IF rule.action_type # NoneStr
                   /\ SubstringOf(evaluation.event_type, Lower(rule.action_type))
                THEN 11 ELSE 10)

\* C37: for a snapshot with at least one rule of the four severities,
\* evaluate_event returns a rule whose weighted rank is the largest of the
\* snapshot, with that rule's severity and with confidence
\* min(weighted rank / 5.28, 1.0); for the one High, adaptive rule with
\* action_type 'notify_modify' and a 'modify' event that is 3.96 / 5.28 =
\* 0.75, and the decision is 'Notify Admin and suggest action'.
ConfidenceIsScoreOverMaximum ==
    (evaluation.evaluated /\ Scored # {}) =>
        /\ \E i \in Scored :
              /\ evaluation.rules[i].id = evaluation.result.matched_rule_id
              /\ evaluation.rules[i].severity_level = evaluation.result.severity
              /\ \A j \in Scored : WeightedRank(j) <= WeightedRank(i)
              /\ WeightedRank(i) <= 528
              /\ evaluation.result.confidence.num * 528 =
                     WeightedRank(i) * evaluation.result.confidence.den
        /\ (/\ evaluation.rules \in ScenarioSnapshots
            /\ evaluation.event_type = "modify") =>
               /\ WeightedRank(1) = 396
               /\ evaluation.result.confidence.num * 4 =
                      evaluation.result.confidence.den * 3
               /\ evaluation.decision.action = "Notify Admin and suggest action"

HighAdaptiveMatchingRuleScored ==
    /\ evaluation.evaluated
    /\ evaluation.rules = <<Rule(1, "High", "notify_modify", TRUE)>>
    /\ evaluation.event_type = "modify"
    /\ evaluation.result.severity = "High"
    /\ evaluation.result.matched_rule_id = 1
    /\ evaluation.result.confidence = [num |-> 396, den |-> 528]
    /\ evaluation.decision.action = "Notify Admin and suggest action"

\* C38: no feedback clears the adaptive_flag of a rule: every step of the
\* Feedback Adaptor leaves a true flag true, and a reject leaves the flag of
\* the named rule as it was, true or false.
AdaptiveFlagNeverCleared ==
    /\ [][\A i \in 1..Len(ai_rules) :
             ai_rules[i].adaptive_flag =>
                 /\ i \in 1..Len(ai_rules')
                 /\ ai_rules'[i].adaptive_flag]_vars
    /\ [](Adapted("reject") =>
             RuleNow.adaptive_flag = RuleBefore.adaptive_flag)
    /\ [](\A i \in 1..Len(ai_rules), f \in FeedbackTypes,
             r \in SuggestedSeverities, n \in 0..MaxRejects :
             ai_rules[i].adaptive_flag =>
                 _adapt_rule(ai_rules[i], f, r, n).adaptive_flag)

ApprovedRuleStillAdaptiveAfterDowngrade ==
    /\ Adapted("reject")
    /\ feedback_call.pc = "returned"
    /\ feedback_call.calls = 2
    /\ RuleBefore.adaptive_flag
    /\ RuleNow.adaptive_flag
    /\ RuleNow.severity_level # RuleBefore.severity_level
    /\ \E k \in 1..feedback_call.logged :
          logs[feedback_call.event][k].message.text
              = "marked as adaptive after approval"

\* C39: pending messages are sent and removed only by the flush of a
\* non-immediate notify_admins call: every step that changes the pending
\* batch or hands a batch to the transport is a step of notify_admins (its
\* append, its send or its clearing of the batch), never a step of an
\* escalation job, of the prepared action or of waiting; and a message
\* leaves the pending batch only when a flush has handed it to the
\* transport, so until then it stays pending.
PendingUntilFlushedByNotify ==
    [][/\ (\/ _notification_batch' # _notification_batch
           \/ {o \in outbox' : o.kind = "batch"} # Batches) =>
              \E e \in EventIds :
                  /\ call[e].pc \in {"append", "flush", "clear"}
                  /\ call'[e].pc # call[e].pc
       /\ \A i \in 1..Len(_notification_batch) :
              ~InSeq(_notification_batch[i], _notification_batch') =>
                  \E o \in Batches : InSeq(_notification_batch[i], o.body)]_vars

\* The flush of call e is over: the batch it handed to the transport has
\* been cleared (line 118).
FlushOver(e) == e \in Flushers /\ call[e].pc # "clear"

\* C40: a flush empties the pending batch and sets the last flush time to
\* the time its call read, delivered or not: once a flush is over, none of
\* the messages it handed to the transport is pending, so no later flush has
\* them to send, also when the delivery failed after all retries; each of
\* them has its NOTIFY log record.
FailedBatchIsDropped ==
    /\ [](\A o \in Batches :
            /\ FlushOver(o.by) =>
                   \A i \in 1..Len(o.body) :
                       ~InSeq(o.body[i], _notification_batch)
            /\ \A i \in 1..Len(o.body) : HasLog(o.body[i].event, "NOTIFY"))
    /\ [][\A e \in EventIds :
             /\ (call[e].pc = "clear" /\ call'[e].pc # "clear") =>
                    _notification_batch' = <<>>
             /\ (call[e].pc = "set_last" /\ call'[e].pc # "set_last") =>
                    _last_batch_send' = call[e].nowN
             /\ (call[e].pc = "flush" /\ call'[e].pc = "clear") =>
                    \A o \in Batches :
                        FlushOver(o.by) =>
                            \A i \in 1..Len(o.body) :
                                ~InSeq(o.body[i], _notification_batch)]_vars

UndeliveredBatchNotSentAgain ==
    \E o1, o2 \in Batches :
        /\ settings.smtp_configured
        /\ ~o1.ok
        /\ o2.by # o1.by
        /\ call[o1.by].nowN = 0
        /\ call[o2.by].nowN >= _batch_interval
        /\ \A i \in 1..Len(o1.body) : ~InSeq(o1.body[i], o2.body)
        /\ FlushOver(o2.by)
        /\ _notification_batch = <<>>
        /\ _last_batch_send = call[o2.by].nowN
        /\ HasLog(o1.by, "NOTIFY")

====
